---- MODULE Spec2Model ----
(***************************************************************************)
(* openskill: the manifest store (src/core/manifest.ts), its lock file,    *)
(* and the install orchestrator (cli/install.ts, installFromGitHub).       *)
(*                                                                         *)
(* Spec        : processes calling addSkillRecord / removeSkillRecord /    *)
(*               loadManifest against the shared files manifest.json,      *)
(*               manifest.json.tmp and manifest.lock, one file-system call *)
(*               per step.                                                 *)
(* SpecCalls   : Spec restricted to addSkillRecord / removeSkillRecord on a *)
(*               manifest that needs no migration, no process dying and no *)
(*               write failing.                                            *)
(* SpecNewer   : SpecCalls with one more call, on a manifest of a version  *)
(*               above MANIFEST_VERSION.                                   *)
(* SpecSolo    : one process making its calls one after the other, from    *)
(*               any lock marker and any manifest file, with the sleeps of *)
(*               acquireLock and with writes that can fail.                *)
(* SpecInstall : one process running install requests (installFromGitHub)  *)
(*               over the agents' skill directories and the manifest;      *)
(*               SpecInstallFair adds that the request keeps running.      *)
(* SpecUninstall : the uninstall command (cli/uninstall.ts) over skill     *)
(*               directories and records left by earlier installs.         *)
(* SpecRegistry : loadRepoCache, refreshRepo and searchSkills              *)
(*               (core/registry.ts) over the sources' cache files.         *)
(* SpecRefreshRace : two processes running refreshRepo for one source, one *)
(*               file-system call per step.                                *)
(* SpecWaiter  : two processes, one add/remove call each, with the sleeps  *)
(*               of acquireLock, no process dying, fair scheduling.        *)
(* SpecReads   : one process writing and one making the unlocked read     *)
(*               calls, no process dying and no write failing.             *)
(* SpecReinstall : SpecInstall started with one pair installed and         *)
(*               recorded by an earlier request.                           *)
(* SpecLifecycle : install and uninstall commands one after the other from *)
(*               the empty state, every call of theirs returning.          *)
(***************************************************************************)
EXTENDS Integers, Sequences, FiniteSets, TLC

(* ----------------------------- bounds ---------------------------------- *)
NumProcs == 2
MaxCalls == 2
MaxTicks == 1
MaxCrashes == 1
MaxRequests == 1
MaxTargets == 3
MaxShortSleeps == 2

(* ------------------------ program constants ---------------------------- *)
MANIFEST_VERSION == 1
WINDOWS_MAX_PID == 4194304
LOCK_TIMEOUT_MS == 5000
LOCK_RETRY_MS == 50
LOCK_STALE_MS == 30000

Procs == 1..NumProcs

(* ------------------------- records and keys ---------------------------- *)
NoScope == "absent"
InstallScope == {"project", "global"}

InstalledSkillRecord(name, agent, scope, commitHash) ==
  [name |-> name, agent |-> agent, scope |-> scope, commitHash |-> commitHash]

\* (s.scope ?? "project")
ScopeOf(s) == IF s.scope = NoScope THEN "project" ELSE s.scope

SameKey(s, name, agent, scope) ==
  s.name = name /\ s.agent = agent /\ ScopeOf(s) = scope

\* manifest.skills.filter((s) => !(same name, agent, scope))
FilterOutKey(skills, name, agent, scope) ==
  SelectSeq(skills, LAMBDA s : ~SameKey(s, name, agent, scope))

Manifest(version, skills) == [version |-> version, skills |-> skills]

EmptyManifest == Manifest(MANIFEST_VERSION, <<>>)

\* addSkillRecord without its filter: the record is only pushed
AddSkillAppendOnly(manifest, record) ==
  [manifest EXCEPT !.skills = Append(manifest.skills, record)]

\* the callback of addSkillRecord between loadManifest and saveManifest
AddSkill(manifest, record) ==
  [manifest EXCEPT !.skills =
     Append(FilterOutKey(manifest.skills, record.name, record.agent, ScopeOf(record)),
            record)]

\* the callback of removeSkillRecord between loadManifest and saveManifest
RemoveSkill(manifest, name, agent, scope) ==
  [manifest EXCEPT !.skills = FilterOutKey(manifest.skills, name, agent, scope)]

\* the migration with the version update left out
migrateManifestKeepsVersion(manifest) == manifest

migrateManifest(manifest) == [manifest EXCEPT !.version = MANIFEST_VERSION]

(* ------------------------------ files ---------------------------------- *)
\* A file's content: absent (no such name), empty (opened with O_TRUNC or
\* O_EXCL and not written yet), garbled (a partial write, or two writes laid
\* over each other), invalid (JSON of the wrong shape), or a document.
NilDoc == Manifest(0, <<>>)
AbsentFile == [kind |-> "absent", doc |-> NilDoc]
EmptyFile == [kind |-> "empty", doc |-> NilDoc]
GarbledFile == [kind |-> "garbled", doc |-> NilDoc]
InvalidFile == [kind |-> "invalid", doc |-> NilDoc]
\* JSON.stringify(manifest, null, 2)
StringifyManifest(manifest) == [kind |-> "doc", doc |-> manifest]

\* A write at offset 0 over what the inode holds: the new text replaces the
\* old when it is at least as long; a shorter text leaves the old tail behind.
Overlays(old, new) ==
  IF old.kind = "empty" \/ old = new THEN {new}
  ELSE IF old.kind # "doc" THEN {new, GarbledFile}
  ELSE IF Len(new.doc.skills) > Len(old.doc.skills) THEN {new}
  ELSE IF Len(new.doc.skills) < Len(old.doc.skills) THEN {GarbledFile}
  ELSE {new, GarbledFile}

\* The lock marker: absent, empty (created with "wx", content not written
\* yet) or JSON.stringify({pid, timestamp}).
AbsentLock == [kind |-> "absent", pid |-> 0, timestamp |-> 0]
EmptyLock == [kind |-> "empty", pid |-> 0, timestamp |-> 0]
GarbledLock == [kind |-> "garbled", pid |-> 0, timestamp |-> 0]
LockInfo(pid, timestamp) == [kind |-> "info", pid |-> pid, timestamp |-> timestamp]

VARIABLES
  platform,   \* process.platform: "win32" or a POSIX platform
  now,        \* Date.now()
  ticks,      \* clock steps taken
  alive,      \* alive[p]: process p is running
  crashes,    \* processes that died
  calls,      \* calls started
  pc,         \* pc[p]: where process p is
  op,         \* op[p]: the call p runs
  startTime,  \* acquireLock's startTime
  wakeAt,     \* end of sleepSync
  lockTs,     \* lockInfo.timestamp of the marker p is writing
  mem,        \* the manifest object p holds in memory; after a read call,
              \* the manifest loadManifest returned
  phase,      \* which saveManifest p is in: "mig" (loadManifest's) or "save"
  fdAt,       \* where the inode of p's open data file is linked
  lockFd,     \* where the inode of p's open lock file is linked
  outcome,    \* how p's last call ended
  wrote,      \* p touched manifest.json or manifest.json.tmp in this call
  lockFile,   \* manifest.lock
  manFile,    \* manifest.json
  tmpFile,    \* manifest.json.tmp
  committed,  \* what the last successful renameSync put in place
  lastWrite   \* per key, the last completed addSkillRecord / removeSkillRecord

VARIABLES
  ipc,             \* where the install request is
  requests,        \* install requests issued so far
  selectedSkills,  \* selectSkills' answer, by skill name
  selectedAgents,  \* selectAgents' answer
  scope,           \* options.scope ?? "project"
  invalidSkills,   \* the skills validateSkill rejects
  si,              \* index of the outer loop (skills)
  ai,              \* index of the inner loop (agents)
  installedSkills, \* the request's rollback list
  rb,              \* index of the rollback loop
  err,             \* the error caught by installFromGitHub
  raised,          \* the error installFromGitHub threw
  rbErr,           \* the last error a rollback uninstallSkill threw
  content,         \* content[agent][scope][name]: the skill directory
  completed,       \* pairs whose installSkill returned, in this request
  uninstallCalls,  \* pairs the rollback called uninstallSkill for
  rbThrown         \* rollback indices whose uninstallSkill threw

VARIABLES
  upc,        \* where the uninstall command is
  uSkill,     \* skillName
  uTarget,    \* the agent named on the command line, "all" for --all, "any"
              \* when no agent was named
  uScope,     \* options.global ? "global" : "project"
  toRemove,   \* the agents listSkills reported the skill for
  uAgents,    \* the agents uninstallSkill is called for, in order
  ui,         \* index into uAgents
  uRemoved    \* the agents whose uninstallSkill returned true

uninstallVars == <<upc, uSkill, uTarget, uScope, toRemove, uAgents, ui, uRemoved>>

VARIABLES
  config,       \* config.repos: the configured sources, in order
  remote,       \* what discoverSkills finds in each source's repository
  cacheFile,    \* cacheFile[name]: the file <name>.json of the repos cache
  cache0,       \* the cache files when the call in progress started
  rpc,          \* where the registry call is
  rop,          \* the registry call: loadRepoCache, refreshRepo, searchSkills
  ri,           \* searchSkills' index into config.repos
  rName,        \* refreshRepo's name
  rUrl,         \* refreshRepo's url
  found,        \* refreshRepo's repoSkills
  allSkills,    \* searchSkills' allSkills
  rResult,      \* what the call returned
  rErr,         \* why the call, or the last refreshRepo, threw
  visited,      \* the sources searchSkills called loadRepoCache for
  refreshCalls, \* the sources refreshRepo was called for
  racers        \* racers[p]: where process p is in its own refreshRepo of the
                \* first source, and the repoSkills it holds

registryVars == <<config, remote, cacheFile, cache0, rpc, rop, ri, rName, rUrl, found,
                  allSkills, rResult, rErr, visited, refreshCalls, racers>>

installVars == <<ipc, requests, selectedSkills, selectedAgents, scope, invalidSkills, si,
                 ai, installedSkills, rb, err, raised, rbErr, content, completed,
                 uninstallCalls, rbThrown, uninstallVars, registryVars>>

storeVars == <<platform, now, ticks, alive, crashes, calls, pc, op, startTime, wakeAt, lockTs,
               mem, phase, fdAt, lockFd, outcome, wrote, lockFile, manFile, tmpFile,
               committed, lastWrite>>

vars == <<storeVars, installVars>>

(* --------------------------- the calls --------------------------------- *)
Names == {"pdf"}
AgentNames == {"claude"}
Keys == Names \X AgentNames \X InstallScope

KeyOf(s) == <<s.name, s.agent, ScopeOf(s)>>

NoOp == [kind |-> "none", name |-> "", agent |-> "", scope |-> NoScope, commitHash |-> 0]

\* addSkillRecord(record): the record's commitHash tells the callers apart
AddOps(p) ==
  {[kind |-> "add", name |-> n, agent |-> a, scope |-> sc, commitHash |-> p] :
     n \in Names, a \in AgentNames, sc \in InstallScope \cup {NoScope}}

\* removeSkillRecord(name, agent, scope = "project")
RemoveOps ==
  {[kind |-> "remove", name |-> n, agent |-> a, scope |-> sc, commitHash |-> 0] :
     n \in Names, a \in AgentNames, sc \in InstallScope}

\* getSkillRecord / getSkillsByAgent / getAllInstalledSkills: loadManifest alone
ReadOps == {[kind |-> "read", name |-> "", agent |-> "", scope |-> NoScope, commitHash |-> 0]}

RecordOf(o) == InstalledSkillRecord(o.name, o.agent, o.scope, o.commitHash)

\* what the call does to the loaded manifest before it saves it
Mutate(o, manifest) ==
  IF o.kind = "add" THEN AddSkill(manifest, RecordOf(o))
  ELSE IF o.kind = "remove" THEN RemoveSkill(manifest, o.name, o.agent, o.scope)
  ELSE manifest

NoRecord == InstalledSkillRecord("", "", NoScope, 0)

\* the record an older release stored: no scope field
OldRecord == InstalledSkillRecord("pdf", "claude", NoScope, 0)

\* manifest.json as found by the first call: none, a current one, one an
\* older release wrote (version 0, a record without scope), or one a newer
\* release wrote
InitialManifests ==
  {AbsentFile,
   StringifyManifest(Manifest(MANIFEST_VERSION, <<>>)),
   StringifyManifest(Manifest(0, <<OldRecord>>)),
   StringifyManifest(Manifest(MANIFEST_VERSION + 1, <<>>))}

\* the parsed content taken as it comes, without the structure test
ParseManifestUnchecked(file) == file.doc

\* what loadManifest makes of the content it read, before migration
ParseManifest(file) == IF file.kind = "doc" THEN file.doc ELSE EmptyManifest

RecordsAt(skills, k) == SelectSeq(skills, LAMBDA s : KeyOf(s) = k)

StoreIdle ==
  /\ platform \in {"posix", "win32"}
  /\ now = 1
  /\ ticks = 0
  /\ alive = [p \in Procs |-> TRUE]
  /\ crashes = 0
  /\ calls = 0
  /\ pc = [p \in Procs |-> "idle"]
  /\ op = [p \in Procs |-> NoOp]
  /\ startTime = [p \in Procs |-> 0]
  /\ wakeAt = [p \in Procs |-> 0]
  /\ lockTs = [p \in Procs |-> 0]
  /\ mem = [p \in Procs |-> NilDoc]
  /\ phase = [p \in Procs |-> "none"]
  /\ fdAt = [p \in Procs |-> "none"]
  /\ lockFd = [p \in Procs |-> "none"]
  /\ outcome = [p \in Procs |-> "none"]
  /\ wrote = [p \in Procs |-> FALSE]
  /\ lockFile = AbsentLock
  /\ tmpFile = AbsentFile

StoreInit ==
  /\ StoreIdle
  /\ manFile \in InitialManifests
  /\ committed = manFile
  /\ lastWrite = [k \in Keys |->
                    LET rs == RecordsAt(ParseManifest(manFile).skills, k)
                    IN IF Len(rs) = 0 THEN NoRecord ELSE rs[1]]

(* ------------------------- the lock primitive -------------------------- *)
\* process.kill(pid, 0) throws for a pid that names no process
KillProbe(pid) == pid \in Procs /\ alive[pid]

\* the win32 answer given on every platform: any well-formed pid is running
isProcessRunningAnyPid(pid) == pid > 0 /\ pid < WINDOWS_MAX_PID

\* on win32 any well-formed pid counts as running; elsewhere the process is
\* probed with signal 0
isProcessRunning(pid) ==
  IF pid <= 0 THEN FALSE
  ELSE IF platform = "win32" THEN pid > 0 /\ pid < WINDOWS_MAX_PID
  ELSE KillProbe(pid)

\* isLockStale without the age test: only a legacy marker is stale
isLockStaleLegacyOnly(lockInfo) == lockInfo.timestamp = 0

isLockStale(lockInfo) ==
  \/ lockInfo.timestamp = 0
  \/ now - lockInfo.timestamp > LOCK_STALE_MS

\* unlinkSync(lockPath): the name goes, an open descriptor keeps its inode
UnlinkLock ==
  /\ lockFile' = AbsentLock
  /\ lockFd' = [q \in Procs |-> IF lockFd[q] = "lock" THEN "orphan" ELSE lockFd[q]]

\* open(lockPath, O_CREAT | O_EXCL | O_WRONLY), the first half of
\* writeFileSync(lockPath, ..., {flag: "wx"})
CreateLock(p) ==
  /\ lockFile' = EmptyLock
  /\ lockFd' = [lockFd EXCEPT ![p] = "lock"]
  /\ lockTs' = [lockTs EXCEPT ![p] = now]

\* withLock with acquireLock inside the try: the finally releases a lock
\* that was never acquired
AcquireFailedReleasing(p) ==
  /\ pc' = [pc EXCEPT ![p] = "idle"]
  /\ outcome' = [outcome EXCEPT ![p] = "lock_error"]
  /\ op' = [op EXCEPT ![p] = NoOp]
  /\ startTime' = [startTime EXCEPT ![p] = 0]
  /\ IF lockFile.kind # "absent" THEN UnlinkLock ELSE UNCHANGED <<lockFile, lockFd>>

\* withLock when acquireLock returned false: throw, and nothing else
AcquireFailed(p) ==
  /\ pc' = [pc EXCEPT ![p] = "idle"]
  /\ outcome' = [outcome EXCEPT ![p] = "lock_error"]
  /\ op' = [op EXCEPT ![p] = NoOp]
  /\ startTime' = [startTime EXCEPT ![p] = 0]
  /\ UNCHANGED <<lockFile, lockFd>>

\* the loop condition tested against the retry interval
WithinRetryInterval(p) == now - startTime[p] < LOCK_RETRY_MS

\* while (Date.now() - startTime < LOCK_TIMEOUT_MS)
WithinTimeout(p) == now - startTime[p] < LOCK_TIMEOUT_MS

\* one turn of acquireLock's while loop: the timeout test, then the
\* exclusive create
AcqTry(p) ==
  /\ pc[p] = "acq_try"
  /\ IF WithinTimeout(p)
     THEN /\ IF lockFile.kind = "absent"
             THEN /\ CreateLock(p)
                  /\ pc' = [pc EXCEPT ![p] = "acq_write"]
             ELSE /\ pc' = [pc EXCEPT ![p] = "acq_read"]
                  /\ UNCHANGED <<lockFile, lockFd, lockTs>>
          /\ UNCHANGED <<outcome, op, startTime>>
     ELSE /\ AcquireFailed(p)
          /\ UNCHANGED lockTs
  /\ UNCHANGED <<platform, now, ticks, alive, crashes, calls, wakeAt, mem, phase, fdAt,
                 wrote, manFile, tmpFile, committed, lastWrite>>

\* the second half of writeFileSync(lockPath, JSON.stringify(lockInfo)):
\* the content goes to the inode opened, and acquireLock returns true
AcqWrite(p) ==
  /\ pc[p] = "acq_write"
  /\ lockFile' = IF lockFd[p] = "lock" THEN LockInfo(p, lockTs[p]) ELSE lockFile
  /\ lockFd' = [lockFd EXCEPT ![p] = "none"]
  /\ lockTs' = [lockTs EXCEPT ![p] = 0]
  /\ startTime' = [startTime EXCEPT ![p] = 0]
  /\ pc' = [pc EXCEPT ![p] = "load"]
  /\ UNCHANGED <<platform, now, ticks, alive, crashes, calls, op, wakeAt, mem,
                 phase, fdAt, outcome, wrote, manFile, tmpFile, committed, lastWrite>>

\* where acquireLock goes after reading a parsed marker of another process
AfterForeignMarker(lockInfo) ==
  IF ~isProcessRunning(lockInfo.pid) \/ isLockStale(lockInfo)
  THEN "acq_unlink_stale"
  ELSE "acq_sleep"

\* the own-pid test left out
OwnMarkerNever(lockInfo, p) == FALSE

\* lockInfo.pid === process.pid
OwnMarker(lockInfo, p) == lockInfo.pid = p

\* EEXIST: readFileSync(lockPath), parseLockInfo, and the decision
AcqRead(p) ==
  /\ pc[p] = "acq_read"
  /\ IF lockFile.kind # "info"
     THEN \* unreadable (ENOENT) or unparseable: remove it and retry
          /\ pc' = [pc EXCEPT ![p] = "acq_unlink_bad"]
          /\ UNCHANGED wakeAt
     ELSE IF OwnMarker(lockFile, p)
     THEN /\ pc' = [pc EXCEPT ![p] = "load"]
          /\ UNCHANGED wakeAt
     ELSE /\ pc' = [pc EXCEPT ![p] = AfterForeignMarker(lockFile)]
          /\ wakeAt' = [wakeAt EXCEPT ![p] =
                          IF AfterForeignMarker(lockFile) = "acq_sleep"
                          THEN now + LOCK_RETRY_MS ELSE 0]
  /\ UNCHANGED <<platform, now, ticks, alive, crashes, calls, op, startTime, lockTs, mem, phase,
                 fdAt, lockFd, outcome, wrote, lockFile, manFile, tmpFile, committed,
                 lastWrite>>

\* unlinkSync(lockPath) of a marker judged stale; ENOENT leads back to the loop
AcqUnlinkStale(p) ==
  /\ pc[p] = "acq_unlink_stale"
  /\ IF lockFile.kind # "absent"
     THEN /\ UnlinkLock
          /\ pc' = [pc EXCEPT ![p] = "acq_recreate"]
     ELSE /\ pc' = [pc EXCEPT ![p] = "acq_try"]
          /\ UNCHANGED <<lockFile, lockFd>>
  /\ UNCHANGED <<platform, now, ticks, alive, crashes, calls, op, startTime, wakeAt, lockTs, mem,
                 phase, fdAt, outcome, wrote, manFile, tmpFile, committed, lastWrite>>

\* the immediate writeFileSync(lockPath, ..., "wx") after the unlink
AcqRecreate(p) ==
  /\ pc[p] = "acq_recreate"
  /\ IF lockFile.kind = "absent"
     THEN /\ CreateLock(p)
          /\ pc' = [pc EXCEPT ![p] = "acq_write"]
     ELSE /\ pc' = [pc EXCEPT ![p] = "acq_try"]
          /\ UNCHANGED <<lockFile, lockFd, lockTs>>
  /\ UNCHANGED <<platform, now, ticks, alive, crashes, calls, op, startTime, wakeAt, mem, phase,
                 fdAt, outcome, wrote, manFile, tmpFile, committed, lastWrite>>

\* the invalid marker removed, but the retry reached through sleepSync
AcqUnlinkBadBackoff(p) ==
  /\ pc[p] = "acq_unlink_bad"
  /\ IF lockFile.kind # "absent"
     THEN UnlinkLock
     ELSE UNCHANGED <<lockFile, lockFd>>
  /\ pc' = [pc EXCEPT ![p] = "acq_sleep"]
  /\ wakeAt' = [wakeAt EXCEPT ![p] = now + LOCK_RETRY_MS]
  /\ UNCHANGED <<platform, now, ticks, alive, crashes, calls, op, startTime, lockTs, mem,
                 phase, fdAt, outcome, wrote, manFile, tmpFile, committed, lastWrite>>

\* unlinkSync(lockPath) of an invalid or unreadable marker, errors ignored
AcqUnlinkBad(p) ==
  /\ pc[p] = "acq_unlink_bad"
  /\ IF lockFile.kind # "absent"
     THEN UnlinkLock
     ELSE UNCHANGED <<lockFile, lockFd>>
  /\ pc' = [pc EXCEPT ![p] = "acq_try"]
  /\ UNCHANGED <<platform, now, ticks, alive, crashes, calls, op, startTime, wakeAt, lockTs, mem,
                 phase, fdAt, outcome, wrote, manFile, tmpFile, committed, lastWrite>>

\* acquireLock giving up after its first sleep
AcqSleepGivingUp(p) ==
  /\ pc[p] = "acq_sleep"
  /\ now >= wakeAt[p]
  /\ AcquireFailed(p)
  /\ wakeAt' = [wakeAt EXCEPT ![p] = 0]
  /\ UNCHANGED <<platform, now, ticks, alive, crashes, calls, lockTs, mem, phase,
                 fdAt, wrote, manFile, tmpFile, committed, lastWrite>>

\* sleepSync(LOCK_RETRY_MS) returns
AcqSleep(p) ==
  /\ pc[p] = "acq_sleep"
  /\ now >= wakeAt[p]
  /\ pc' = [pc EXCEPT ![p] = "acq_try"]
  /\ wakeAt' = [wakeAt EXCEPT ![p] = 0]
  /\ UNCHANGED <<platform, now, ticks, alive, crashes, calls, op, startTime, lockTs, mem, phase,
                 fdAt, lockFd, outcome, wrote, lockFile, manFile, tmpFile, committed,
                 lastWrite>>

\* releaseLock() with the unlinkSync left out
releaseLockKeepsMarker == UNCHANGED <<lockFile, lockFd>>

\* releaseLock(): unlinkSync(getLockPath()), errors ignored
releaseLock ==
  IF lockFile.kind # "absent" THEN UnlinkLock ELSE UNCHANGED <<lockFile, lockFd>>

(* --------------------------- the manifest ------------------------------ *)
\* the call goes on with the manifest loadManifest returned
Continue(p, loaded) ==
  IF op[p].kind = "read"
  THEN /\ pc' = [pc EXCEPT ![p] = "idle"]
       /\ outcome' = [outcome EXCEPT ![p] = "ok"]
       /\ op' = [op EXCEPT ![p] = NoOp]
       /\ mem' = [mem EXCEPT ![p] = loaded]
       /\ phase' = [phase EXCEPT ![p] = "none"]
  ELSE /\ pc' = [pc EXCEPT ![p] = "save_open"]
       /\ mem' = [mem EXCEPT ![p] = Mutate(op[p], loaded)]
       /\ phase' = [phase EXCEPT ![p] = "save"]
       /\ UNCHANGED <<outcome, op>>

\* loadManifest: existsSync, readFileSync, JSON.parse, the structure test,
\* and the version test that sends an older document through migration
Load(p) ==
  /\ pc[p] = "load"
  /\ IF manFile.kind = "doc" /\ manFile.doc.version < MANIFEST_VERSION
     THEN /\ mem' = [mem EXCEPT ![p] = migrateManifest(manFile.doc)]
          /\ phase' = [phase EXCEPT ![p] = "mig"]
          /\ pc' = [pc EXCEPT ![p] = "save_open"]
          /\ UNCHANGED <<outcome, op>>
     ELSE Continue(p, ParseManifest(manFile))
  /\ UNCHANGED <<platform, now, ticks, alive, crashes, calls, startTime, wakeAt, lockTs, fdAt,
                 lockFd, wrote, lockFile, manFile, tmpFile, committed, lastWrite>>

\* saveManifest returned
SaveReturns(p) ==
  IF phase[p] = "mig"
  THEN Continue(p, mem[p])
  ELSE /\ pc' = [pc EXCEPT ![p] = "release"]
       /\ outcome' = [outcome EXCEPT ![p] = "ok"]
       /\ UNCHANGED <<op, mem, phase>>

\* saveManifest threw and the error left withLock past its finally
SaveThrowsUnreleased(p) ==
  IF phase[p] = "mig"
  THEN Continue(p, EmptyManifest)
  ELSE /\ pc' = [pc EXCEPT ![p] = "idle"]
       /\ outcome' = [outcome EXCEPT ![p] = "save_error"]
       /\ op' = [op EXCEPT ![p] = NoOp]
       /\ mem' = [mem EXCEPT ![p] = NilDoc]
       /\ phase' = [phase EXCEPT ![p] = "none"]

\* saveManifest threw: loadManifest's catch answers the empty manifest,
\* withLock's finally releases the lock and lets the error through
SaveThrows(p) ==
  IF phase[p] = "mig"
  THEN Continue(p, EmptyManifest)
  ELSE /\ pc' = [pc EXCEPT ![p] = "release"]
       /\ outcome' = [outcome EXCEPT ![p] = "save_error"]
       /\ UNCHANGED <<op, mem, phase>>

\* writeFileSync(tempPath, ...), first half: open(tempPath, O_WRONLY |
\* O_CREAT | O_TRUNC) creates the file or empties the inode already there
SaveOpen(p) ==
  /\ pc[p] = "save_open"
  /\ tmpFile' = EmptyFile
  /\ fdAt' = [fdAt EXCEPT ![p] = "tmp"]
  /\ wrote' = [wrote EXCEPT ![p] = TRUE]
  /\ pc' = [pc EXCEPT ![p] = "save_write"]
  /\ UNCHANGED <<platform, now, ticks, alive, crashes, calls, op, startTime, wakeAt, lockTs, mem,
                 phase, lockFd, outcome, lockFile, manFile, committed, lastWrite>>

\* the inode p's descriptor is on gets content c, under whatever name it has
WriteThrough(p, c) ==
  /\ tmpFile' = IF fdAt[p] = "tmp" THEN c ELSE tmpFile
  /\ manFile' = IF fdAt[p] = "man" THEN c ELSE manFile

HeldFile(p) == IF fdAt[p] = "tmp" THEN tmpFile
               ELSE IF fdAt[p] = "man" THEN manFile ELSE EmptyFile

\* writeFileSync(tempPath, ...), second half: write and close
SaveWrite(p) ==
  /\ pc[p] = "save_write"
  /\ \E c \in Overlays(HeldFile(p), StringifyManifest(mem[p])) : WriteThrough(p, c)
  /\ fdAt' = [fdAt EXCEPT ![p] = "none"]
  /\ pc' = [pc EXCEPT ![p] = "save_rename"]
  /\ UNCHANGED <<platform, now, ticks, alive, crashes, calls, op, startTime, wakeAt, lockTs, mem,
                 phase, lockFd, outcome, wrote, lockFile, committed, lastWrite>>

\* the write fails part-way (disk full): writeFileSync throws
SaveWriteFail(p) ==
  /\ pc[p] = "save_write"
  /\ WriteThrough(p, GarbledFile)
  /\ fdAt' = [fdAt EXCEPT ![p] = "none"]
  /\ SaveThrows(p)
  /\ UNCHANGED <<platform, now, ticks, alive, crashes, calls, startTime, wakeAt, lockTs, lockFd,
                 wrote, lockFile, committed, lastWrite>>

\* renameSync(tempPath, path); ENOENT when the temporary name is gone
SaveRename(p) ==
  /\ pc[p] = "save_rename"
  /\ IF tmpFile.kind # "absent"
     THEN /\ manFile' = tmpFile
          /\ tmpFile' = AbsentFile
          /\ committed' = tmpFile
          /\ fdAt' = [q \in Procs |->
                        IF fdAt[q] = "tmp" THEN "man"
                        ELSE IF fdAt[q] = "man" THEN "orphan" ELSE fdAt[q]]
          /\ SaveReturns(p)
     ELSE /\ SaveThrows(p)
          /\ UNCHANGED <<manFile, tmpFile, committed, fdAt>>
  /\ UNCHANGED <<platform, now, ticks, alive, crashes, calls, startTime, wakeAt, lockTs, lockFd,
                 wrote, lockFile, lastWrite>>

\* withLock's finally, and the call's return or throw
Release(p) ==
  /\ pc[p] = "release"
  /\ releaseLock
  /\ lastWrite' = IF outcome[p] = "ok"
                  THEN [lastWrite EXCEPT ![KeyOf(op[p])] =
                          IF op[p].kind = "add" THEN RecordOf(op[p]) ELSE NoRecord]
                  ELSE lastWrite
  /\ pc' = [pc EXCEPT ![p] = "idle"]
  /\ op' = [op EXCEPT ![p] = NoOp]
  /\ mem' = [mem EXCEPT ![p] = NilDoc]
  /\ phase' = [phase EXCEPT ![p] = "none"]
  /\ UNCHANGED <<platform, now, ticks, alive, crashes, calls, startTime, wakeAt, lockTs, fdAt,
                 outcome, wrote, manFile, tmpFile, committed>>

(* ------------------------- the environment ----------------------------- *)
\* a process invocation calls into the manifest module, as one of at most
\* max calls
StartWithin(p, o, max) ==
  /\ pc[p] = "idle"
  /\ calls < max
  /\ calls' = calls + 1
  /\ op' = [op EXCEPT ![p] = o]
  /\ outcome' = [outcome EXCEPT ![p] = "none"]
  /\ wrote' = [wrote EXCEPT ![p] = FALSE]
  /\ startTime' = [startTime EXCEPT ![p] = IF o.kind = "read" THEN 0 ELSE now]
  /\ pc' = [pc EXCEPT ![p] = IF o.kind = "read" THEN "load" ELSE "acq_try"]
  /\ mem' = [mem EXCEPT ![p] = NilDoc]
  /\ UNCHANGED <<platform, now, ticks, alive, crashes, wakeAt, lockTs, phase, fdAt, lockFd,
                 lockFile, manFile, tmpFile, committed, lastWrite>>

Start(p, o) == StartWithin(p, o, MaxCalls)

\* the process dies in the middle of a call; its descriptors close
Crash(p) ==
  /\ pc[p] \notin {"idle", "crashed"}
  /\ crashes < MaxCrashes
  /\ crashes' = crashes + 1
  /\ alive' = [alive EXCEPT ![p] = FALSE]
  /\ pc' = [pc EXCEPT ![p] = "crashed"]
  /\ fdAt' = [fdAt EXCEPT ![p] = "none"]
  /\ lockFd' = [lockFd EXCEPT ![p] = "none"]
  /\ mem' = [mem EXCEPT ![p] = NilDoc]
  /\ op' = [op EXCEPT ![p] = NoOp]
  /\ phase' = [phase EXCEPT ![p] = "none"]
  /\ startTime' = [startTime EXCEPT ![p] = 0]
  /\ wakeAt' = [wakeAt EXCEPT ![p] = 0]
  /\ lockTs' = [lockTs EXCEPT ![p] = 0]
  /\ wrote' = [wrote EXCEPT ![p] = FALSE]
  /\ UNCHANGED <<platform, now, ticks, calls, outcome, lockFile, manFile, tmpFile, committed,
                 lastWrite>>

\* the places where a process is about to read Date.now()
ClockReaders == {"acq_try", "acq_read", "acq_recreate", "acq_sleep"}

TickSteps == {LOCK_RETRY_MS, LOCK_TIMEOUT_MS, LOCK_STALE_MS + 1}

\* time passes
Tick(d) ==
  /\ ticks < MaxTicks
  /\ \E p \in Procs : pc[p] \in ClockReaders
  /\ ticks' = ticks + 1
  /\ now' = now + d
  /\ UNCHANGED <<platform, alive, crashes, calls, pc, op, startTime, wakeAt, lockTs, mem,
                 phase,
                 fdAt, lockFd, outcome, wrote, lockFile, manFile, tmpFile, committed,
                 lastWrite>>

StoreNext ==
  \/ \E p \in Procs : \E o \in AddOps(p) \cup RemoveOps \cup ReadOps : Start(p, o)
  \/ \E p \in Procs : AcqTry(p)
  \/ \E p \in Procs : AcqWrite(p)
  \/ \E p \in Procs : AcqRead(p)
  \/ \E p \in Procs : AcqUnlinkStale(p)
  \/ \E p \in Procs : AcqRecreate(p)
  \/ \E p \in Procs : AcqUnlinkBad(p)
  \/ \E p \in Procs : AcqSleep(p)
  \/ \E p \in Procs : Load(p)
  \/ \E p \in Procs : SaveOpen(p)
  \/ \E p \in Procs : SaveWrite(p)
  \/ \E p \in Procs : SaveWriteFail(p)
  \/ \E p \in Procs : SaveRename(p)
  \/ \E p \in Procs : Release(p)
  \/ \E p \in Procs : Crash(p)
  \/ \E d \in TickSteps : Tick(d)


(* ======================== the repository cache ========================= *)
Range(f) == {f[i] : i \in DOMAIN f}

\* name.length <= 100 in isValidConfigRepoName
CONFIG_NAME_MAX == 100

\* strings are sequences of characters
UpperCase == <<"A", "B", "C", "D", "E", "F", "G", "H", "I", "J", "K", "L", "M",
               "N", "O", "P", "Q", "R", "S", "T", "U", "V", "W", "X", "Y", "Z">>
LowerCase == <<"a", "b", "c", "d", "e", "f", "g", "h", "i", "j", "k", "l", "m",
               "n", "o", "p", "q", "r", "s", "t", "u", "v", "w", "x", "y", "z">>
Digits == {"0", "1", "2", "3", "4", "5", "6", "7", "8", "9"}

Lower(c) ==
  IF \E i \in DOMAIN UpperCase : UpperCase[i] = c
  THEN LowerCase[CHOOSE i \in DOMAIN UpperCase : UpperCase[i] = c]
  ELSE c

\* String.prototype.toLowerCase
ToLowerCase(str) == [i \in DOMAIN str |-> Lower(str[i])]

\* String.prototype.includes
Includes(str, sub) ==
  \E i \in 0..(Len(str) - Len(sub)) : SubSeq(str, i + 1, i + Len(sub)) = sub

\* /^[a-zA-Z0-9_-]+$/.test(name) && name.length > 0 && name.length <= 100
isValidConfigRepoName(name) ==
  /\ \A i \in DOMAIN name :
       name[i] \in Range(UpperCase) \cup Range(LowerCase) \cup Digits \cup {"_", "-"}
  /\ Len(name) > 0
  /\ Len(name) <= CONFIG_NAME_MAX

Official == <<"o", "f", "f", "i", "c", "i", "a", "l">>
Community == <<"m", "y", "_", "r", "e", "p", "o", "-", "2">>
\* the names the sources of config.repos carry
SourceNames == {Official, Community}
\* names loadRepoCache can be handed besides: "", "../x", "my repo"
OtherNames == {<<>>, <<".", ".", "/", "x">>, <<"m", "y", " ", "r", "e", "p", "o">>}

\* parseGitUrl: owner and repo of a url in one of the supported formats,
\* null for anything else
GoodUrl == "https://github.com/anthropics/skills"
BadUrl == "not a url"
NoUrl == [owner |-> "", repo |-> ""]
parseGitUrl(url) ==
  IF url = GoodUrl THEN [owner |-> "anthropics", repo |-> "skills"] ELSE NoUrl

RepoConfig(name, url) == [name |-> name, url |-> url]

\* a discovered skill, and the cached RepoSkill refreshRepo makes of it
SkillInfo(name, description) == [name |-> name, description |-> description]
RepoSkill(skill, repo) ==
  [name |-> skill.name, description |-> skill.description, repo |-> repo]

\* pdf-tools: "PDF utilities"; docx: "Word"; viewer: "Shows Pdf"
PdfTools == SkillInfo(<<"p", "d", "f", "-", "t", "o", "o", "l", "s">>,
                      <<"P", "D", "F", " ", "u", "t", "i", "l", "i", "t", "i", "e", "s">>)
Docx == SkillInfo(<<"d", "o", "c", "x">>, <<"W", "o", "r", "d">>)
Viewer == SkillInfo(<<"v", "i", "e", "w", "e", "r">>,
                    <<"S", "h", "o", "w", "s", " ", "P", "d", "f">>)

\* the queries: "pdf", "PDF", "Doc", "", "zip"
Queries == {<<"p", "d", "f">>, <<"P", "D", "F">>, <<"D", "o", "c">>, <<>>,
            <<"z", "i", "p">>}

\* what a repository can hold
Discoveries == {<<>>, <<PdfTools>>, <<Viewer, Docx>>}

\* a cache file: none, one that cannot be read, one that is not JSON, JSON
\* without a skills array, or a RepoCache
CacheFile(kind, skills) == [kind |-> kind, skills |-> skills]
AbsentCache == CacheFile("absent", <<>>)
StringifyCache(skills) == CacheFile("cache", skills)
CacheFiles(name) ==
  {AbsentCache, CacheFile("unreadable", <<>>), CacheFile("garbled", <<>>),
   CacheFile("noskills", <<>>)}
  \cup {StringifyCache([i \in DOMAIN d |-> RepoSkill(d[i], name)]) : d \in Discoveries}

\* the body of loadRepoCache after getCachePath: existsSync, readFileSync,
\* JSON.parse, the structure test
ReadCache(file) == IF file.kind = "cache" THEN file.skills ELSE <<>>

\* loadRepoCache(name): getCachePath throws for a name that is not a valid
\* config name, outside the try
loadRepoCache(name) ==
  IF ~isValidConfigRepoName(name)
  THEN [threw |-> TRUE, skills |-> <<>>]
  ELSE IF name \in DOMAIN cacheFile
       THEN [threw |-> FALSE, skills |-> ReadCache(cacheFile[name])]
       ELSE [threw |-> FALSE, skills |-> <<>>]

\* the filter without the toLowerCase calls
MatchesCaseSensitive(skill, query) ==
  \/ Includes(skill.name, query)
  \/ Includes(skill.description, query)

\* the filter of searchSkills
Matches(skill, query) ==
  \/ Includes(ToLowerCase(skill.name), ToLowerCase(query))
  \/ Includes(ToLowerCase(skill.description), ToLowerCase(query))

NoCall == [kind |-> "none", name |-> <<>>, url |-> "", query |-> <<>>]

\* a process that is not in refreshRepo
NoRacer == [at |-> "None", found |-> <<>>]

RegistryIdle ==
  /\ config = <<>>
  /\ remote = [n \in SourceNames |-> <<>>]
  /\ cacheFile = [n \in SourceNames |-> AbsentCache]
  /\ cache0 = cacheFile
  /\ rpc = "None"
  /\ rop = NoCall
  /\ ri = 0
  /\ rName = <<>>
  /\ rUrl = ""
  /\ found = <<>>
  /\ allSkills = <<>>
  /\ rResult = <<>>
  /\ rErr = "none"
  /\ visited = <<>>
  /\ refreshCalls = <<>>
  /\ racers = [p \in Procs |-> NoRacer]

(* ======================= the install orchestrator ====================== *)
\* Object.keys(agents)
AllAgents == <<"claude", "antigravity", "codex", "cursor">>
\* the skills discoverSkills finds in the repository
AvailableSkills == <<"pdf", "docx">>

\* the order-preserving selections from a list
RECURSIVE SubSeqs(_)
SubSeqs(list) ==
  IF list = <<>> THEN {<<>>}
  ELSE LET rest == SubSeqs(Tail(list))
       IN rest \cup {<<Head(list)>> \o r : r \in rest}

Pair(name, agent) == [name |-> name, agent |-> agent]

NoError == [kind |-> "none", name |-> "", agent |-> ""]
Error(kind, name, agent) == [kind |-> kind, name |-> name, agent |-> agent]

NoContent == [a \in Range(AllAgents) |->
                [sc \in InstallScope |-> [n \in Range(AvailableSkills) |-> "absent"]]]

UninstallIdle ==
  /\ upc = "None"
  /\ uSkill = ""
  /\ uTarget = ""
  /\ uScope = "project"
  /\ toRemove = {}
  /\ uAgents = <<>>
  /\ ui = 0
  /\ uRemoved = {}

\* no request made yet
RequestIdle ==
  /\ UninstallIdle
  /\ RegistryIdle
  /\ ipc = "None"
  /\ requests = 0
  /\ selectedSkills = <<>>
  /\ selectedAgents = <<>>
  /\ scope = "project"
  /\ invalidSkills = {}
  /\ si = 0
  /\ ai = 0
  /\ installedSkills = <<>>
  /\ rb = 0
  /\ err = NoError
  /\ raised = NoError
  /\ rbErr = NoError
  /\ completed = <<>>
  /\ uninstallCalls = <<>>
  /\ rbThrown = {}

\* no request made yet and no skill directory in place
InstallIdle ==
  /\ RequestIdle
  /\ content = NoContent

\* installFromGitHub is called: the repository is cloned, the skills are
\* discovered, selectSkills and selectAgents have answered
NewRequest(skills, agents, sc, invalid) ==
  /\ ipc \in {"None", "Committed", "Failed", "Cancelled"}
  /\ requests < MaxRequests
  /\ requests' = requests + 1
  /\ ipc' = "Resolving"
  /\ selectedSkills' = skills
  /\ selectedAgents' = agents
  /\ scope' = sc
  /\ invalidSkills' = invalid
  /\ si' = 0 /\ ai' = 0 /\ rb' = 0
  /\ installedSkills' = <<>>
  /\ err' = NoError /\ raised' = NoError /\ rbErr' = NoError
  /\ completed' = <<>> /\ uninstallCalls' = <<>> /\ rbThrown' = {}
  /\ UNCHANGED <<content, storeVars>>
  /\ UNCHANGED <<uninstallVars, registryVars>>

\* the two "Installation cancelled" returns, else into the loops
Resolve ==
  /\ ipc = "Resolving"
  /\ IF selectedSkills = <<>> \/ selectedAgents = <<>>
     THEN ipc' = "Cancelled" /\ si' = 0
     ELSE ipc' = "SkillStart" /\ si' = 1
  /\ UNCHANGED <<requests, selectedSkills, selectedAgents, scope, invalidSkills, ai,
                 installedSkills, rb, err, raised, rbErr, content, completed,
                 uninstallCalls, rbThrown, storeVars>>
  /\ UNCHANGED <<uninstallVars, registryVars>>

\* for (const skillInfo of selectedSkills): the next skill, or the end
ToSkill(i) ==
  IF i > Len(selectedSkills)
  THEN ipc' = "Committed" /\ si' = 0 /\ ai' = 0
  ELSE ipc' = "SkillStart" /\ si' = i /\ ai' = 0

\* the inner loop jumping to its last agent
ToAgentLast(j) ==
  IF j > Len(selectedAgents)
  THEN ToSkill(si + 1)
  ELSE ipc' = "Validate" /\ si' = si /\ ai' = Len(selectedAgents)

\* for (const agentName of selectedAgents): the next agent, or the next skill
ToAgent(j) ==
  IF j > Len(selectedAgents)
  THEN ToSkill(si + 1)
  ELSE ipc' = "Validate" /\ si' = si /\ ai' = j

\* loadSkillFromDir(skillInfo.path); a skill that does not load is skipped
SkillStart(loads) ==
  /\ ipc = "SkillStart"
  /\ IF loads THEN ToAgent(1) ELSE ToSkill(si + 1)
  /\ UNCHANGED <<requests, selectedSkills, selectedAgents, scope, invalidSkills,
                 installedSkills, rb, err, raised, rbErr, content, completed,
                 uninstallCalls, rbThrown, storeVars>>
  /\ UNCHANGED <<uninstallVars, registryVars>>

CurSkill == selectedSkills[si]
CurAgent == selectedAgents[ai]

\* the validation's answer ignored
ValidateIgnored ==
  /\ ipc = "Validate"
  /\ ipc' = "Install"
  /\ UNCHANGED <<requests, selectedSkills, selectedAgents, scope, invalidSkills, si, ai,
                 installedSkills, rb, err, raised, rbErr, content, completed,
                 uninstallCalls, rbThrown, storeVars>>
  /\ UNCHANGED <<uninstallVars, registryVars>>

\* agent.validateSkill(skill): an incompatible pair is skipped with a warning
Validate ==
  /\ ipc = "Validate"
  /\ IF CurSkill \in invalidSkills
     THEN ToAgent(ai + 1)
     ELSE ipc' = "Install" /\ UNCHANGED <<si, ai>>
  /\ UNCHANGED <<requests, selectedSkills, selectedAgents, scope, invalidSkills,
                 installedSkills, rb, err, raised, rbErr, content, completed,
                 uninstallCalls, rbThrown, storeVars>>
  /\ UNCHANGED <<uninstallVars, registryVars>>

\* the push forgotten
TrackInstalledDropped(list, name, agent) == list

\* installedSkills.push({ name, agent })
TrackInstalled(list, name, agent) == Append(list, Pair(name, agent))

\* agent.installSkill returned: rmSync of the old directory, cpSync of the new
InstallOk ==
  /\ ipc = "Install"
  /\ content' = [content EXCEPT ![CurAgent][scope][CurSkill] = "installed"]
  /\ installedSkills' = TrackInstalled(installedSkills, CurSkill, CurAgent)
  /\ completed' = Append(completed, Pair(CurSkill, CurAgent))
  /\ ipc' = "Record"
  /\ UNCHANGED <<requests, selectedSkills, selectedAgents, scope, invalidSkills, si, ai,
                 rb, err, raised, rbErr, uninstallCalls, rbThrown, storeVars>>
  /\ UNCHANGED <<uninstallVars, registryVars>>

\* the catch block is entered with the error thrown inside the loops
Caught(e) ==
  /\ err' = e
  /\ ipc' = "RollingBack"
  /\ rb' = 1

\* the error of installSkill swallowed and the pair recorded all the same
InstallThrowsRecorded(left) ==
  /\ ipc = "Install"
  /\ content' = [content EXCEPT ![CurAgent][scope][CurSkill] =
                   IF left = "unchanged" THEN @ ELSE left]
  /\ ipc' = "Record"
  /\ UNCHANGED <<requests, selectedSkills, selectedAgents, scope, invalidSkills, si, ai,
                 installedSkills, rb, err, raised, rbErr, completed, uninstallCalls,
                 rbThrown, storeVars>>
  /\ UNCHANGED <<uninstallVars, registryVars>>

\* agent.installSkill threw: before the rmSync, after it, or during the cpSync
InstallThrows(left) ==
  /\ ipc = "Install"
  /\ content' = [content EXCEPT ![CurAgent][scope][CurSkill] =
                   IF left = "unchanged" THEN @ ELSE left]
  /\ Caught(Error("install", CurSkill, CurAgent))
  /\ UNCHANGED <<requests, selectedSkills, selectedAgents, scope, invalidSkills, si, ai,
                 installedSkills, raised, rbErr, completed, uninstallCalls, rbThrown,
                 storeVars>>
  /\ UNCHANGED <<uninstallVars, registryVars>>

\* the record written without the request's scope
RecordOkProjectScope ==
  /\ ipc = "Record"
  /\ manFile' = StringifyManifest(
                  AddSkill(migrateManifest(ParseManifest(manFile)),
                           InstalledSkillRecord(CurSkill, CurAgent, "project", requests)))
  /\ committed' = manFile'
  /\ ToAgent(ai + 1)
  /\ UNCHANGED <<requests, selectedSkills, selectedAgents, scope, invalidSkills,
                 installedSkills, rb, err, raised, rbErr, content, completed,
                 uninstallCalls, rbThrown>>
  /\ UNCHANGED <<platform, now, ticks, alive, crashes, calls, pc, op, startTime, wakeAt, lockTs,
                 mem, phase, fdAt, lockFd, outcome, wrote, lockFile, tmpFile, lastWrite>>
  /\ UNCHANGED <<uninstallVars, registryVars>>

\* addSkillRecord(...) alone on the manifest: lock, load, replace, save, release
RecordOk ==
  /\ ipc = "Record"
  /\ manFile' = StringifyManifest(
                  AddSkill(migrateManifest(ParseManifest(manFile)),
                           InstalledSkillRecord(CurSkill, CurAgent, scope, requests)))
  /\ committed' = manFile'
  /\ ToAgent(ai + 1)
  /\ UNCHANGED <<requests, selectedSkills, selectedAgents, scope, invalidSkills,
                 installedSkills, rb, err, raised, rbErr, content, completed,
                 uninstallCalls, rbThrown>>
  /\ UNCHANGED <<platform, now, ticks, alive, crashes, calls, pc, op, startTime, wakeAt, lockTs,
                 mem, phase, fdAt, lockFd, outcome, wrote, lockFile, tmpFile, lastWrite>>
  /\ UNCHANGED <<uninstallVars, registryVars>>

\* the error of addSkillRecord logged and the loops going on
RecordThrowsSkipped ==
  /\ ipc = "Record"
  /\ ToAgent(ai + 1)
  /\ UNCHANGED <<requests, selectedSkills, selectedAgents, scope, invalidSkills,
                 installedSkills, rb, err, raised, rbErr, content, completed,
                 uninstallCalls, rbThrown, storeVars>>
  /\ UNCHANGED <<uninstallVars, registryVars>>

\* addSkillRecord threw (the lock was not acquired, or the save failed)
RecordThrows ==
  /\ ipc = "Record"
  /\ Caught(Error("record", CurSkill, CurAgent))
  /\ UNCHANGED <<requests, selectedSkills, selectedAgents, scope, invalidSkills, si, ai,
                 installedSkills, raised, rbErr, content, completed, uninstallCalls,
                 rbThrown, storeVars>>
  /\ UNCHANGED <<uninstallVars, registryVars>>

\* the rollback loop's index after the catch of a failed uninstallSkill
AfterRollbackThrow(k) == k + 1

\* the rollback's error thrown in place of the original
RethrownLast(e, rollbackErr) == IF rollbackErr.kind # "none" THEN rollbackErr ELSE e

\* throw err
Rethrown(e, rollbackErr) == e

\* the catch block throwing at once, its loop left out
RollbackAbandoned ==
  /\ ipc = "RollingBack"
  /\ ipc' = "Failed"
  /\ raised' = Rethrown(err, rbErr)
  /\ rb' = 0
  /\ UNCHANGED <<content, uninstallCalls>>
  /\ UNCHANGED <<requests, selectedSkills, selectedAgents, scope, invalidSkills, si, ai,
                 installedSkills, err, rbErr, completed, rbThrown, storeVars>>
  /\ UNCHANGED <<uninstallVars, registryVars>>

\* for (const { name, agent } of installedSkills): uninstallSkill returned
\* (existsSync, rmSync), or the loop is over and the error is thrown again
Rollback ==
  /\ ipc = "RollingBack"
  /\ IF rb > Len(installedSkills)
     THEN /\ ipc' = "Failed"
          /\ raised' = Rethrown(err, rbErr)
          /\ rb' = 0
          /\ UNCHANGED <<content, uninstallCalls>>
     ELSE /\ content' = [content EXCEPT
                           ![installedSkills[rb].agent][scope][installedSkills[rb].name] =
                             "absent"]
          /\ uninstallCalls' = Append(uninstallCalls, installedSkills[rb])
          /\ rb' = rb + 1
          /\ UNCHANGED <<ipc, raised>>
  /\ UNCHANGED <<requests, selectedSkills, selectedAgents, scope, invalidSkills, si, ai,
                 installedSkills, err, rbErr, completed, rbThrown, storeVars>>
  /\ UNCHANGED <<uninstallVars, registryVars>>

\* a rollback uninstallSkill threw (rmSync failed): logged, the loop goes on
RollbackThrows(left) ==
  /\ ipc = "RollingBack"
  /\ rb <= Len(installedSkills)
  /\ content[installedSkills[rb].agent][scope][installedSkills[rb].name] # "absent"
  /\ content' = [content EXCEPT
                   ![installedSkills[rb].agent][scope][installedSkills[rb].name] =
                     IF left = "unchanged" THEN @ ELSE left]
  /\ uninstallCalls' = Append(uninstallCalls, installedSkills[rb])
  /\ rbErr' = Error("uninstall", installedSkills[rb].name, installedSkills[rb].agent)
  /\ rbThrown' = rbThrown \cup {rb}
  /\ rb' = AfterRollbackThrow(rb)
  /\ UNCHANGED <<ipc, requests, selectedSkills, selectedAgents, scope, invalidSkills, si,
                 ai, installedSkills, err, raised, completed, storeVars>>
  /\ UNCHANGED <<uninstallVars, registryVars>>

Selections(list, max) == {sel \in SubSeqs(list) : Len(sel) <= max}

InstallNext ==
  \/ \E skills \in SubSeqs(AvailableSkills), agents \in Selections(AllAgents, MaxTargets),
        sc \in InstallScope, invalid \in SUBSET Range(AvailableSkills) :
       NewRequest(skills, agents, sc, invalid)
  \/ Resolve
  \/ \E loads \in BOOLEAN : SkillStart(loads)
  \/ Validate
  \/ InstallOk
  \/ \E left \in {"unchanged", "absent", "partial"} : InstallThrows(left)
  \/ RecordOk
  \/ RecordThrows
  \/ Rollback
  \/ \E left \in {"unchanged", "partial"} : RollbackThrows(left)

InstallInit ==
  /\ StoreInit
  /\ manFile = AbsentFile
  /\ InstallIdle

SpecInstall == InstallInit /\ [][InstallNext]_vars

\* an install request over a pair an earlier request installed and recorded
PriorRecord == InstalledSkillRecord("pdf", "claude", "project", 0)

ReinstallInit ==
  /\ StoreIdle
  /\ manFile = StringifyManifest(Manifest(MANIFEST_VERSION, <<PriorRecord>>))
  /\ committed = manFile
  /\ lastWrite = [k \in Keys |-> IF k = KeyOf(PriorRecord) THEN PriorRecord ELSE NoRecord]
  /\ RequestIdle
  /\ content = [NoContent EXCEPT ![PriorRecord.agent][PriorRecord.scope][PriorRecord.name] =
                                   "installed"]

SpecReinstall == ReinstallInit /\ [][InstallNext]_vars

\* the request keeps running: every await of installFromGitHub settles
SpecInstallFair == SpecInstall /\ WF_vars(InstallNext)

(* ====================== the uninstall command ========================== *)
\* at most this many skill directories are left half-copied at the start
MaxPartial == 1

\* the variables of the install request that the uninstall command leaves alone
requestVars == <<ipc, selectedSkills, selectedAgents, scope, invalidSkills, si, ai,
                 installedSkills, rb, err, raised, rbErr, completed, uninstallCalls,
                 rbThrown>>

\* agent.listSkills reports a directory that holds a SKILL.md that parses;
\* a half-copied directory ("partial") is taken to lack it
Listed(a, sc, n) == content[a][sc][n] = "installed"

\* existsSync(skillDir) in uninstallSkill
Exists(a, sc, n) == content[a][sc][n] # "absent"

\* the agents whose listSkills has the skill
Holders(sc, n) == {a \in Range(AllAgents) : Listed(a, sc, n)}

\* loadManifest with no failure: parse, and migrate an older document
LoadedManifest ==
  LET m == ParseManifest(manFile)
  IN IF m.version < MANIFEST_VERSION THEN migrateManifest(m) ELSE m

\* osk uninstall <skill> [-a] [-g] / osk uninstall <agent> <skill> [-g]
UninstallRequest(name, target, sc) ==
  /\ upc = "None"
  /\ requests < MaxRequests
  /\ requests' = requests + 1
  /\ upc' = "Listing"
  /\ uSkill' = name
  /\ uTarget' = target
  /\ uScope' = sc
  /\ UNCHANGED <<toRemove, uAgents, ui, uRemoved, content, requestVars, storeVars>>
  /\ UNCHANGED registryVars

\* the listSkills loops before any removal: toRemove for --all,
\* agentsWithSkill and the select prompt when no agent was named, the
\* "is not installed" test for the agent that is going to be used
ListHolders ==
  /\ upc = "Listing"
  /\ toRemove' = IF uTarget \in {"all", "any"}
                 THEN Holders(uScope, uSkill)
                 ELSE Holders(uScope, uSkill) \cap {uTarget}
  /\ IF toRemove' = {}
     THEN upc' = "NotInstalled" /\ uAgents' = <<>>
     ELSE /\ upc' = "Confirm"
          /\ IF uTarget = "all"
             THEN uAgents' = AllAgents
             ELSE \E a \in toRemove' : uAgents' = <<a>>
  /\ UNCHANGED <<uSkill, uTarget, uScope, ui, uRemoved, requests, content, requestVars,
                 storeVars>>
  /\ UNCHANGED registryVars

\* options.yes, or the answer to the confirm prompt
ConfirmRemoval(confirmed) ==
  /\ upc = "Confirm"
  /\ IF confirmed THEN upc' = "Removing" /\ ui' = 1
                  ELSE upc' = "Cancelled" /\ ui' = 0
  /\ UNCHANGED <<uSkill, uTarget, uScope, toRemove, uAgents, uRemoved, requests, content,
                 requestVars, storeVars>>
  /\ UNCHANGED registryVars

\* the loop left after its first agent
ToTargetDone(j) == upc' = "Done" /\ ui' = 0

\* the loop over the agents: the next one, or the end of the command
ToTarget(j) ==
  IF j > Len(uAgents)
  THEN upc' = "Done" /\ ui' = 0
  ELSE upc' = "Removing" /\ ui' = j

\* agent.uninstallSkill(skillName, undefined, scope) returned: false when
\* the directory does not exist, true after rmSync removed it
UninstallSkill ==
  /\ upc = "Removing"
  /\ IF Exists(uAgents[ui], uScope, uSkill)
     THEN /\ content' = [content EXCEPT ![uAgents[ui]][uScope][uSkill] = "absent"]
          /\ uRemoved' = uRemoved \cup {uAgents[ui]}
          /\ upc' = "Record" /\ ui' = ui
     ELSE /\ ToTarget(ui + 1)
          /\ UNCHANGED <<content, uRemoved>>
  /\ UNCHANGED <<uSkill, uTarget, uScope, toRemove, uAgents, requests, requestVars,
                 storeVars>>
  /\ UNCHANGED registryVars

\* rmSync threw: the command ends with the error
UninstallSkillThrows(left) ==
  /\ upc = "Removing"
  /\ Exists(uAgents[ui], uScope, uSkill)
  /\ content' = [content EXCEPT ![uAgents[ui]][uScope][uSkill] =
                   IF left = "unchanged" THEN @ ELSE left]
  /\ upc' = "Failed"
  /\ UNCHANGED <<uSkill, uTarget, uScope, toRemove, uAgents, ui, uRemoved, requests,
                 requestVars, storeVars>>
  /\ UNCHANGED registryVars

\* the record removed in every scope
RemoveRecordAnyScope ==
  /\ upc = "Record"
  /\ manFile' = StringifyManifest(
                  RemoveSkill(RemoveSkill(LoadedManifest, uSkill, uAgents[ui], "project"),
                              uSkill, uAgents[ui], "global"))
  /\ committed' = manFile'
  /\ ToTarget(ui + 1)
  /\ UNCHANGED <<uSkill, uTarget, uScope, toRemove, uAgents, uRemoved, requests, content,
                 requestVars>>
  /\ UNCHANGED <<platform, now, ticks, alive, crashes, calls, pc, op, startTime, wakeAt, lockTs,
                 mem, phase, fdAt, lockFd, outcome, wrote, lockFile, tmpFile, lastWrite>>
  /\ UNCHANGED registryVars

\* removeSkillRecord(skillName, agent.name, scope) alone on the manifest
RemoveRecord ==
  /\ upc = "Record"
  /\ manFile' = StringifyManifest(RemoveSkill(LoadedManifest, uSkill, uAgents[ui], uScope))
  /\ committed' = manFile'
  /\ ToTarget(ui + 1)
  /\ UNCHANGED <<uSkill, uTarget, uScope, toRemove, uAgents, uRemoved, requests, content,
                 requestVars>>
  /\ UNCHANGED <<platform, now, ticks, alive, crashes, calls, pc, op, startTime, wakeAt, lockTs,
                 mem, phase, fdAt, lockFd, outcome, wrote, lockFile, tmpFile, lastWrite>>
  /\ UNCHANGED registryVars

\* removeSkillRecord threw (the lock was not acquired, or the save failed)
RemoveRecordThrows ==
  /\ upc = "Record"
  /\ upc' = "Failed"
  /\ UNCHANGED <<uSkill, uTarget, uScope, toRemove, uAgents, ui, uRemoved, requests,
                 content, requestVars, storeVars>>
  /\ UNCHANGED registryVars

UninstallNext ==
  \/ \E name \in Names, target \in Range(AllAgents) \cup {"all", "any"}, sc \in InstallScope :
       UninstallRequest(name, target, sc)
  \/ ListHolders
  \/ \E confirmed \in BOOLEAN : ConfirmRemoval(confirmed)
  \/ UninstallSkill
  \/ \E left \in {"unchanged", "partial"} : UninstallSkillThrows(left)
  \/ RemoveRecord
  \/ RemoveRecordThrows

\* the (agent, scope) places of a skill directory
Places == Range(AllAgents) \X InstallScope

\* the skill directories found by the command: any of them installed, at
\* most MaxPartial of them half-copied by an install that failed
UninstallContents ==
  {[a \in Range(AllAgents) |->
      [sc \in InstallScope |->
         [n \in Range(AvailableSkills) |-> IF n \in Names THEN f[<<a, sc>>] ELSE "absent"]]] :
     f \in {g \in [Places -> {"absent", "installed", "partial"}] :
              Cardinality({pl \in Places : g[pl] = "partial"}) <= MaxPartial}}

\* a record for every place of the skill, agents in list order
AllRecords(n) ==
  [i \in 1..(2 * Len(AllAgents)) |->
     InstalledSkillRecord(n, AllAgents[(i + 1) \div 2],
                          IF i % 2 = 1 THEN "project" ELSE "global", 0)]

\* manifest.json as found by the command: none, the records of the
\* installed directories, or a record for every place (records whose
\* directory is gone, or was never completed, included)
UninstallManifests(c) ==
  {AbsentFile,
   StringifyManifest(Manifest(MANIFEST_VERSION,
     SelectSeq(AllRecords("pdf"), LAMBDA r : c[r.agent][r.scope][r.name] = "installed"))),
   StringifyManifest(Manifest(MANIFEST_VERSION, AllRecords("pdf")))}

UninstallInit ==
  /\ StoreIdle
  /\ platform = "posix"
  /\ content \in UninstallContents
  /\ manFile \in UninstallManifests(content)
  /\ committed = manFile
  /\ lastWrite = [k \in Keys |-> NoRecord]
  /\ UninstallIdle
  /\ RegistryIdle
  /\ ipc = "None"
  /\ requests = 0
  /\ selectedSkills = <<>>
  /\ selectedAgents = <<>>
  /\ scope = "project"
  /\ invalidSkills = {}
  /\ si = 0
  /\ ai = 0
  /\ installedSkills = <<>>
  /\ rb = 0
  /\ err = NoError
  /\ raised = NoError
  /\ rbErr = NoError
  /\ completed = <<>>
  /\ uninstallCalls = <<>>
  /\ rbThrown = {}

SpecUninstall == UninstallInit /\ [][UninstallNext]_vars

(* ---------------- install and uninstall, one after the other ---------- *)
\* install and uninstall commands run in turn from the empty state, at most
\* this many of them
MaxLifecycle == 3

\* the agents the commands of the sequence name
LifeAgents == SubSeq(AllAgents, 1, 2)

\* no command is running and none has ended with an error
Quiescent ==
  /\ ipc \in {"None", "Committed", "Cancelled"}
  /\ upc \in {"None", "Done", "NotInstalled", "Cancelled"}

\* osk install ...: installFromGitHub is entered with the answers of
\* selectSkills and selectAgents
LifeInstall(skills, agents, sc, invalid) ==
  /\ Quiescent
  /\ requests < MaxLifecycle
  /\ requests' = requests + 1
  /\ ipc' = "Resolving"
  /\ selectedSkills' = skills
  /\ selectedAgents' = agents
  /\ scope' = sc
  /\ invalidSkills' = invalid
  /\ si' = 0 /\ ai' = 0 /\ rb' = 0
  /\ installedSkills' = <<>>
  /\ err' = NoError /\ raised' = NoError /\ rbErr' = NoError
  /\ completed' = <<>> /\ uninstallCalls' = <<>> /\ rbThrown' = {}
  /\ UNCHANGED <<content, storeVars>>
  /\ UNCHANGED <<uninstallVars, registryVars>>

\* osk uninstall ...: the action of the uninstall command is entered
LifeUninstall(name, target, sc) ==
  /\ Quiescent
  /\ requests < MaxLifecycle
  /\ requests' = requests + 1
  /\ upc' = "Listing"
  /\ uSkill' = name
  /\ uTarget' = target
  /\ uScope' = sc
  /\ toRemove' = {} /\ uAgents' = <<>> /\ ui' = 0 /\ uRemoved' = {}
  /\ UNCHANGED <<content, requestVars, storeVars>>
  /\ UNCHANGED registryVars

\* every call of the commands returns: no installSkill, uninstallSkill,
\* addSkillRecord or removeSkillRecord throws
LifecycleNext ==
  \/ \E skills \in SubSeqs(AvailableSkills), agents \in SubSeqs(LifeAgents),
        sc \in InstallScope, invalid \in {{}, {AvailableSkills[1]}} :
       LifeInstall(skills, agents, sc, invalid)
  \/ \E name \in Range(AvailableSkills), target \in Range(LifeAgents) \cup {"all", "any"},
        sc \in InstallScope :
       LifeUninstall(name, target, sc)
  \/ Resolve
  \/ \E loads \in BOOLEAN : SkillStart(loads)
  \/ Validate
  \/ InstallOk
  \/ RecordOk
  \/ ListHolders
  \/ \E confirmed \in BOOLEAN : ConfirmRemoval(confirmed)
  \/ UninstallSkill
  \/ RemoveRecord

LifecycleInit ==
  /\ InstallInit
  /\ platform = "posix"

SpecLifecycle == LifecycleInit /\ [][LifecycleNext]_vars

(* ====================== the registry's operations ====================== *)
\* everything but the repository cache's own state
nonRegistryVars == <<storeVars, ipc, requests, selectedSkills, selectedAgents, scope,
                     invalidSkills, si, ai, installedSkills, rb, err, raised, rbErr,
                     content, completed, uninstallCalls, rbThrown, uninstallVars>>

\* loadRepoCache(name) called on its own (search --repo, repo list)
LoadCall(name) ==
  /\ rpc = "None"
  /\ rop' = [kind |-> "load", name |-> name, url |-> "", query |-> <<>>]
  /\ cache0' = cacheFile
  /\ IF loadRepoCache(name).threw
     THEN rpc' = "Threw" /\ rErr' = "name" /\ rResult' = <<>>
     ELSE rpc' = "Done" /\ rErr' = "none" /\ rResult' = loadRepoCache(name).skills
  /\ UNCHANGED <<config, remote, cacheFile, ri, rName, rUrl, found, allSkills, visited,
                 refreshCalls, racers, nonRegistryVars>>

\* refreshRepo(name, url) is entered
EnterRefresh(name, url) ==
  /\ rName' = name
  /\ rUrl' = url
  /\ found' = <<>>
  /\ refreshCalls' = Append(refreshCalls, name)
  /\ rpc' = "RefreshParse"

\* refreshRepo(name, url) called on its own (repo add, repo refresh)
RefreshCall(name, url) ==
  /\ rpc = "None"
  /\ rop' = [kind |-> "refresh", name |-> name, url |-> url, query |-> <<>>]
  /\ cache0' = cacheFile
  /\ EnterRefresh(name, url)
  /\ UNCHANGED <<config, remote, cacheFile, ri, allSkills, rResult, rErr, visited,
                 racers, nonRegistryVars>>

\* searchSkills(query)
SearchCall(query) ==
  /\ rpc = "None"
  /\ rop' = [kind |-> "search", name |-> <<>>, url |-> "", query |-> query]
  /\ cache0' = cacheFile
  /\ rpc' = "SearchLoad"
  /\ ri' = 1
  /\ allSkills' = <<>>
  /\ UNCHANGED <<config, remote, cacheFile, rName, rUrl, found, rResult, rErr, visited,
                 refreshCalls, racers, nonRegistryVars>>

\* allSkills.filter(...) at the end of searchSkills
SearchFilter(skills, query) == SelectSeq(skills, LAMBDA skill : Matches(skill, query))

\* if (skills.length === 0)
NeedsRefresh(skills) == Len(skills) = 0

\* for (const repo of config.repos): loadRepoCache, then refreshRepo for an
\* empty list, or the skills pushed; after the last source the filter
SearchLoad ==
  /\ rpc = "SearchLoad"
  /\ IF ri > Len(config)
     THEN /\ rpc' = "Done"
          /\ rResult' = SearchFilter(allSkills, rop.query)
          /\ UNCHANGED <<ri, rName, rUrl, found, allSkills, rErr, visited, refreshCalls>>
     ELSE /\ visited' = Append(visited, config[ri].name)
          /\ IF loadRepoCache(config[ri].name).threw
             THEN /\ rpc' = "Threw" /\ rErr' = "name"
                  /\ UNCHANGED <<ri, rName, rUrl, found, allSkills, rResult, refreshCalls>>
             ELSE IF NeedsRefresh(loadRepoCache(config[ri].name).skills)
                  THEN /\ EnterRefresh(config[ri].name, config[ri].url)
                       /\ UNCHANGED <<ri, allSkills, rResult, rErr>>
                  ELSE /\ allSkills' = allSkills \o loadRepoCache(config[ri].name).skills
                       /\ ri' = ri + 1
                       /\ UNCHANGED <<rpc, rName, rUrl, found, rResult, rErr, refreshCalls>>
  /\ UNCHANGED <<config, remote, cacheFile, cache0, rop, racers, nonRegistryVars>>

\* refreshRepo's error passed on by searchSkills
RefreshThrewAborting(cause) ==
  /\ rErr' = cause
  /\ rpc' = "Threw" /\ ri' = ri
  /\ UNCHANGED <<allSkills, rResult>>

\* refreshRepo threw: searchSkills warns and goes to the next source, any
\* other caller gets the error
RefreshThrew(cause) ==
  /\ rErr' = cause
  /\ IF rop.kind = "search"
     THEN rpc' = "SearchLoad" /\ ri' = ri + 1
     ELSE rpc' = "Threw" /\ ri' = ri
  /\ UNCHANGED <<allSkills, rResult>>

\* refreshRepo returned repoSkills
RefreshReturned ==
  IF rop.kind = "search"
  THEN /\ rpc' = "SearchLoad" /\ ri' = ri + 1
       /\ allSkills' = allSkills \o found
       /\ UNCHANGED <<rResult, rErr>>
  ELSE /\ rpc' = "Done" /\ ri' = ri
       /\ rResult' = found
       /\ UNCHANGED <<allSkills, rErr>>

\* parseGitUrl(url)
RefreshParse ==
  /\ rpc = "RefreshParse"
  /\ IF parseGitUrl(rUrl) = NoUrl
     THEN RefreshThrew("url")
     ELSE rpc' = "RefreshFetch" /\ UNCHANGED <<ri, allSkills, rResult, rErr>>
  /\ UNCHANGED <<config, remote, cacheFile, cache0, rop, rName, rUrl, found, visited,
                 refreshCalls, racers, nonRegistryVars>>

\* the cache entry emptied before the repository is fetched
RefreshFetchWriting(success) ==
  /\ rpc = "RefreshFetch"
  /\ cacheFile' = [cacheFile EXCEPT ![rName] = StringifyCache(<<>>)]
  /\ IF success
     THEN rpc' = "RefreshDiscover" /\ UNCHANGED <<ri, allSkills, rResult, rErr>>
     ELSE RefreshThrew("fetch")
  /\ UNCHANGED <<config, remote, cache0, rop, rName, rUrl, found, visited, refreshCalls,
                 racers, nonRegistryVars>>

\* await updateRepo(owner, repo, cloneUrl)
RefreshFetch(success) ==
  /\ rpc = "RefreshFetch"
  /\ IF success
     THEN rpc' = "RefreshDiscover" /\ UNCHANGED <<ri, allSkills, rResult, rErr>>
     ELSE RefreshThrew("fetch")
  /\ UNCHANGED cacheFile
  /\ UNCHANGED <<config, remote, cache0, rop, rName, rUrl, found, visited, refreshCalls,
                 racers, nonRegistryVars>>

\* discoverSkills(repoPath) and the map to RepoSkill
RefreshDiscover(ok) ==
  /\ rpc = "RefreshDiscover"
  /\ IF ok
     THEN /\ found' = [i \in DOMAIN remote[rName] |-> RepoSkill(remote[rName][i], rName)]
          /\ rpc' = "RefreshWrite"
          /\ UNCHANGED <<ri, allSkills, rResult, rErr>>
     ELSE /\ RefreshThrew("discover")
          /\ UNCHANGED found
  /\ UNCHANGED <<config, remote, cacheFile, cache0, rop, rName, rUrl, visited,
                 refreshCalls, racers, nonRegistryVars>>

\* writeFileSync(getCachePath(name), JSON.stringify(cache, null, 2))
RefreshWrite ==
  /\ rpc = "RefreshWrite"
  /\ IF isValidConfigRepoName(rName) /\ rName \in DOMAIN cacheFile
     THEN /\ cacheFile' = [cacheFile EXCEPT ![rName] = StringifyCache(found)]
          /\ RefreshReturned
     ELSE /\ RefreshThrew("name")
          /\ UNCHANGED cacheFile
  /\ UNCHANGED <<config, remote, cache0, rop, rName, rUrl, found, visited, refreshCalls,
                 racers, nonRegistryVars>>

\* writeFileSync threw: before it opened the file, or after it emptied it
RefreshWriteThrows(left) ==
  /\ rpc = "RefreshWrite"
  /\ isValidConfigRepoName(rName) /\ rName \in DOMAIN cacheFile
  /\ cacheFile' = [cacheFile EXCEPT ![rName] =
                     IF left = "unchanged" THEN @ ELSE CacheFile(left, <<>>)]
  /\ RefreshThrew("write")
  /\ UNCHANGED <<config, remote, cache0, rop, rName, rUrl, found, visited, refreshCalls,
                 racers, nonRegistryVars>>

RegistryNext ==
  \/ \E name \in SourceNames \cup OtherNames : LoadCall(name)
  \/ \E name \in SourceNames, url \in {GoodUrl, BadUrl} : RefreshCall(name, url)
  \/ \E query \in Queries : SearchCall(query)
  \/ SearchLoad
  \/ RefreshParse
  \/ \E success \in BOOLEAN : RefreshFetch(success)
  \/ \E ok \in BOOLEAN : RefreshDiscover(ok)
  \/ RefreshWrite
  \/ \E left \in {"unchanged", "garbled"} : RefreshWriteThrows(left)

\* config.repos: one or two sources in either order, each with a url that
\* parses or not (a hand-edited config.json)
Configs ==
  {<<RepoConfig(Official, GoodUrl)>>}
  \cup {c \in {<<RepoConfig(a, GoodUrl), RepoConfig(b, u)>> :
                   a \in SourceNames, b \in SourceNames, u \in {GoodUrl, BadUrl}} :
          c[1].name # c[2].name}

RegistryInit ==
  /\ StoreInit
  /\ manFile = AbsentFile
  /\ platform = "posix"
  /\ UninstallIdle
  /\ ipc = "None"
  /\ requests = 0
  /\ selectedSkills = <<>>
  /\ selectedAgents = <<>>
  /\ scope = "project"
  /\ invalidSkills = {}
  /\ si = 0
  /\ ai = 0
  /\ installedSkills = <<>>
  /\ rb = 0
  /\ err = NoError
  /\ raised = NoError
  /\ rbErr = NoError
  /\ content = NoContent
  /\ completed = <<>>
  /\ uninstallCalls = <<>>
  /\ rbThrown = {}
  /\ config \in Configs
  /\ remote \in [SourceNames -> Discoveries]
  /\ \E c1 \in CacheFiles(Official), c2 \in CacheFiles(Community) :
       cacheFile = [n \in SourceNames |-> IF n = Official THEN c1 ELSE c2]
  /\ cache0 = cacheFile
  /\ rpc = "None"
  /\ rop = NoCall
  /\ ri = 0
  /\ rName = <<>>
  /\ rUrl = ""
  /\ found = <<>>
  /\ allSkills = <<>>
  /\ rResult = <<>>
  /\ rErr = "none"
  /\ visited = <<>>
  /\ refreshCalls = <<>>
  /\ racers = [p \in Procs |-> NoRacer]

SpecRegistry == RegistryInit /\ [][RegistryNext]_vars

(* ================ refreshes of one source that race ==================== *)
\* Two processes run refreshRepo for the same source. writeFileSync(path,
\* text) opens the cache file with O_TRUNC and then writes the text at
\* offset 0 of the inode; nothing keeps the two apart.

\* the source both processes refresh
RaceName == Official

\* what the single caller's variables and the other modules hold
raceFrame == <<config, remote, cache0, rpc, rop, ri, rName, rUrl, found, allSkills,
               rResult, rErr, visited, refreshCalls, nonRegistryVars>>

\* the cache file between the open and the write of writeFileSync
EmptyCache == CacheFile("empty", <<>>)

\* the length of the text JSON.stringify makes of the skills, up to what
\* every entry has in common
RECURSIVE JsonLength(_)
JsonLength(skills) ==
  IF skills = <<>> THEN 0
  ELSE Len(Head(skills).name) + Len(Head(skills).description) + Len(Head(skills).repo)
       + JsonLength(Tail(skills))

\* a write at offset 0 over what the inode holds: a text at least as long
\* replaces the old one, a shorter text leaves the old tail behind it
OverlaysCache(old, new) ==
  IF old.kind \in {"absent", "empty"} \/ old = new THEN {new}
  ELSE IF old.kind # "cache" THEN {new, CacheFile("garbled", <<>>)}
  ELSE IF JsonLength(new.skills) >= JsonLength(old.skills) THEN {new}
  ELSE {CacheFile("garbled", <<>>)}

\* refreshRepo(name, url) is called by process p; the url parses
RaceRefresh(p) ==
  /\ racers[p].at = "None"
  /\ racers' = [racers EXCEPT ![p] = [at |-> "Fetch", found |-> <<>>]]
  /\ UNCHANGED <<cacheFile, raceFrame>>

\* await updateRepo(owner, repo, cloneUrl)
RaceFetch(p, success) ==
  /\ racers[p].at = "Fetch"
  /\ racers' = [racers EXCEPT ![p].at = IF success THEN "Discover" ELSE "Threw"]
  /\ UNCHANGED <<cacheFile, raceFrame>>

\* discoverSkills(repoPath) over what the clone holds by now, and the map
RaceDiscover(p, skills) ==
  /\ racers[p].at = "Discover"
  /\ racers' = [racers EXCEPT ![p] =
                  [at |-> "Open",
                   found |-> [i \in DOMAIN skills |-> RepoSkill(skills[i], RaceName)]]]
  /\ UNCHANGED <<cacheFile, raceFrame>>

\* writeFileSync(getCachePath(name), ...), first half: open with O_TRUNC
RaceOpen(p) ==
  /\ racers[p].at = "Open"
  /\ cacheFile' = [cacheFile EXCEPT ![RaceName] = EmptyCache]
  /\ racers' = [racers EXCEPT ![p].at = "Write"]
  /\ UNCHANGED raceFrame

\* writeFileSync, second half: write and close; refreshRepo returns
RaceWrite(p) ==
  /\ racers[p].at = "Write"
  /\ \E c \in OverlaysCache(cacheFile[RaceName], StringifyCache(racers[p].found)) :
       cacheFile' = [cacheFile EXCEPT ![RaceName] = c]
  /\ racers' = [racers EXCEPT ![p].at = "Returned"]
  /\ UNCHANGED raceFrame

RaceNext ==
  \/ \E p \in Procs : RaceRefresh(p)
  \/ \E p \in Procs, success \in BOOLEAN : RaceFetch(p, success)
  \/ \E p \in Procs, skills \in Discoveries : RaceDiscover(p, skills)
  \/ \E p \in Procs : RaceOpen(p)
  \/ \E p \in Procs : RaceWrite(p)

RaceInit ==
  /\ RegistryInit
  /\ config = <<RepoConfig(RaceName, GoodUrl)>>
  /\ remote = [n \in SourceNames |-> <<>>]
  /\ cacheFile[Community] = AbsentCache

SpecRefreshRace == RaceInit /\ [][RaceNext]_vars

(* ========================= the specifications ========================== *)
\* Only addSkillRecord / removeSkillRecord calls, on a manifest of the
\* current version, with no process dying and no write failing.
CallsInit ==
  /\ StoreInit
  /\ InstallIdle
  /\ manFile.kind = "absent" \/ manFile.doc.version >= MANIFEST_VERSION

CallsNext ==
  \/ \E p \in Procs : \E o \in AddOps(p) \cup RemoveOps : Start(p, o)
  \/ \E p \in Procs : AcqTry(p)
  \/ \E p \in Procs : AcqWrite(p)
  \/ \E p \in Procs : AcqRead(p)
  \/ \E p \in Procs : AcqUnlinkStale(p)
  \/ \E p \in Procs : AcqRecreate(p)
  \/ \E p \in Procs : AcqUnlinkBad(p)
  \/ \E p \in Procs : AcqSleep(p)
  \/ \E p \in Procs : Load(p)
  \/ \E p \in Procs : SaveOpen(p)
  \/ \E p \in Procs : SaveWrite(p)
  \/ \E p \in Procs : SaveRename(p)
  \/ \E p \in Procs : Release(p)
  \/ \E d \in TickSteps : Tick(d)

SpecCalls == CallsInit /\ [][CallsNext /\ UNCHANGED installVars]_vars

\* addSkillRecord / removeSkillRecord calls, one more than in SpecCalls, on a
\* manifest that a newer release wrote
NewerInit ==
  /\ CallsInit
  /\ manFile.kind = "doc" /\ manFile.doc.version > MANIFEST_VERSION

NewerNext ==
  \/ \E p \in Procs : \E o \in AddOps(p) \cup RemoveOps : StartWithin(p, o, MaxCalls + 1)
  \/ \E p \in Procs : AcqTry(p)
  \/ \E p \in Procs : AcqWrite(p)
  \/ \E p \in Procs : AcqRead(p)
  \/ \E p \in Procs : AcqUnlinkStale(p)
  \/ \E p \in Procs : AcqRecreate(p)
  \/ \E p \in Procs : AcqUnlinkBad(p)
  \/ \E p \in Procs : AcqSleep(p)
  \/ \E p \in Procs : Load(p)
  \/ \E p \in Procs : SaveOpen(p)
  \/ \E p \in Procs : SaveWrite(p)
  \/ \E p \in Procs : SaveRename(p)
  \/ \E p \in Procs : Release(p)
  \/ \E d \in TickSteps : Tick(d)

SpecNewer == NewerInit /\ [][NewerNext /\ UNCHANGED installVars]_vars

Init == StoreInit /\ InstallIdle

Next == StoreNext /\ UNCHANGED installVars

Spec == Init /\ [][Next]_vars

(* ------------------- one caller, files as it finds them ---------------- *)
\* The process whose calls are followed; the other process ids are those of
\* earlier invocations, which left their marker behind and are either gone
\* or still running without ever releasing it.
Caller == 1

\* Date.now() when the caller starts: late enough for a marker to be stale
SoloNow == LOCK_STALE_MS + 2

\* a current manifest with a record outside the "project" scope
GlobalRecord == InstalledSkillRecord("pdf", "claude", "global", 0)

\* manifest.json as the caller finds it: also zero-length, not JSON, or JSON
\* of another shape
SoloManifests ==
  InitialManifests \cup
    {EmptyFile, GarbledFile, InvalidFile,
     StringifyManifest(Manifest(MANIFEST_VERSION, <<GlobalRecord>>))}

\* manifest.lock as the caller finds it: none, zero-length, not lock info, or
\* lock info of any process: in the legacy format (timestamp 0), old, or fresh
SoloLocks ==
  {AbsentLock, EmptyLock, GarbledLock} \cup
    {LockInfo(q, t) : q \in Procs, t \in {0, 1, SoloNow}}

SoloInit ==
  /\ platform \in {"posix", "win32"}
  /\ now = SoloNow
  /\ ticks = 0
  /\ alive \in {f \in [Procs -> BOOLEAN] : f[Caller]}
  /\ crashes = 0
  /\ calls = 0
  /\ pc = [p \in Procs |-> IF alive[p] THEN "idle" ELSE "crashed"]
  /\ op = [p \in Procs |-> NoOp]
  /\ startTime = [p \in Procs |-> 0]
  /\ wakeAt = [p \in Procs |-> 0]
  /\ lockTs = [p \in Procs |-> 0]
  /\ mem = [p \in Procs |-> NilDoc]
  /\ phase = [p \in Procs |-> "none"]
  /\ fdAt = [p \in Procs |-> "none"]
  /\ lockFd = [p \in Procs |-> "none"]
  /\ outcome = [p \in Procs |-> "none"]
  /\ wrote = [p \in Procs |-> FALSE]
  /\ lockFile \in SoloLocks
  /\ manFile \in SoloManifests
  /\ tmpFile = AbsentFile
  /\ committed = manFile
  /\ lastWrite = [k \in Keys |->
                    LET rs == RecordsAt(ParseManifest(manFile).skills, k)
                    IN IF Len(rs) = 0 THEN NoRecord ELSE rs[1]]
  /\ InstallIdle

\* how long a sleepSync(LOCK_RETRY_MS) can take: the interval itself (for the
\* first MaxShortSleeps sleeps), or longer when the process is held up: to
\* just before the timeout, or past the staleness threshold
SleepSteps ==
  (IF ticks < MaxShortSleeps THEN {LOCK_RETRY_MS} ELSE {}) \cup
    {LOCK_TIMEOUT_MS - LOCK_RETRY_MS, LOCK_STALE_MS + 1}

\* time passes while p is in sleepSync
Sleeping(p, d) ==
  /\ pc[p] = "acq_sleep"
  /\ now < wakeAt[p]
  /\ now' = now + d
  /\ ticks' = IF d = LOCK_RETRY_MS THEN ticks + 1 ELSE ticks
  /\ UNCHANGED <<platform, alive, crashes, calls, pc, op, startTime, wakeAt, lockTs,
                 mem, phase, fdAt, lockFd, outcome, wrote, lockFile, manFile, tmpFile,
                 committed, lastWrite>>

SoloNext ==
  \/ \E o \in AddOps(Caller) \cup RemoveOps \cup ReadOps : Start(Caller, o)
  \/ AcqTry(Caller)
  \/ AcqWrite(Caller)
  \/ AcqRead(Caller)
  \/ AcqUnlinkStale(Caller)
  \/ AcqRecreate(Caller)
  \/ AcqUnlinkBad(Caller)
  \/ AcqSleep(Caller)
  \/ \E d \in SleepSteps : Sleeping(Caller, d)
  \/ Load(Caller)
  \/ SaveOpen(Caller)
  \/ SaveWrite(Caller)
  \/ SaveWriteFail(Caller)
  \/ SaveRename(Caller)
  \/ Release(Caller)

\* the caller keeps running and its sleeps end
SpecSolo ==
  /\ SoloInit
  /\ [][SoloNext /\ UNCHANGED installVars]_vars
  /\ WF_vars(SoloNext /\ UNCHANGED installVars)

(* ------------------- a holder and a waiter, one call each -------------- *)
\* Two processes, each making one addSkillRecord / removeSkillRecord call;
\* whichever comes second finds the other's marker and waits. Time passes
\* in the sleeps of acquireLock only, each taking LOCK_RETRY_MS.
Contenders == {Caller, Caller + 1}

WaiterInit ==
  /\ CallsInit
  /\ platform = "posix"

WaiterNext ==
  \/ \E p \in Contenders : \E o \in AddOps(p) \cup RemoveOps :
       outcome[p] = "none" /\ Start(p, o)
  \/ \E p \in Contenders : AcqTry(p)
  \/ \E p \in Contenders : AcqWrite(p)
  \/ \E p \in Contenders : AcqRead(p)
  \/ \E p \in Contenders : AcqUnlinkStale(p)
  \/ \E p \in Contenders : AcqRecreate(p)
  \/ \E p \in Contenders : AcqUnlinkBad(p)
  \/ \E p \in Contenders : AcqSleep(p)
  \/ \E p \in Contenders : Sleeping(p, wakeAt[p] - now)
  \/ \E p \in Contenders : Load(p)
  \/ \E p \in Contenders : SaveOpen(p)
  \/ \E p \in Contenders : SaveWrite(p)
  \/ \E p \in Contenders : SaveRename(p)
  \/ \E p \in Contenders : Release(p)

\* both processes keep running
SpecWaiter ==
  /\ WaiterInit
  /\ [][WaiterNext /\ UNCHANGED installVars]_vars
  /\ WF_vars(WaiterNext /\ UNCHANGED installVars)

(* ------------------- one writer and an unlocked reader ----------------- *)
\* One process makes addSkillRecord / removeSkillRecord calls while another
\* makes the read calls (getSkillRecord, getSkillsByAgent,
\* getAllInstalledSkills), which run loadManifest without the lock. No
\* process dies and no write fails.
Writer == Caller
Reader == Caller + 1

ReadsInit ==
  /\ Init
  /\ platform = "posix"

ReadsNext ==
  \/ \E o \in AddOps(Writer) \cup RemoveOps : Start(Writer, o)
  \/ \E o \in ReadOps : Start(Reader, o)
  \/ AcqTry(Writer)
  \/ AcqWrite(Writer)
  \/ \E p \in {Writer, Reader} : Load(p)
  \/ \E p \in {Writer, Reader} : SaveOpen(p)
  \/ \E p \in {Writer, Reader} : SaveWrite(p)
  \/ \E p \in {Writer, Reader} : SaveRename(p)
  \/ Release(Writer)

SpecReads == ReadsInit /\ [][ReadsNext /\ UNCHANGED installVars]_vars

(* ======================= the store's properties ======================== *)
\* p is between a successful acquireLock() and the end of its releaseLock()
InLockedSection(p) ==
  /\ pc[p] \in {"load", "save_open", "save_write", "save_rename", "release"}
  /\ op[p].kind \in {"add", "remove"}

\* C1: mutual exclusion. At most one process at a time is inside the
\* load-mutate-save section of withLock.
C1_MutualExclusion == Cardinality({p \in Procs : InLockedSection(p)}) <= 1

\* every call that was started has returned or thrown
QuietStore == \A p \in Procs : pc[p] = "idle"

\* the records a loadManifest would now return
Persisted == ParseManifest(manFile).skills

\* C2: no lost update. Once all calls have completed, the persisted manifest
\* holds, for every key, exactly the record of the last completed upsert, and
\* no record for a key whose last completed write was a remove.
C2_NoLostUpdate ==
  QuietStore =>
    \A k \in Keys :
      RecordsAt(Persisted, k) =
        IF lastWrite[k] = NoRecord THEN <<>> ELSE <<lastWrite[k]>>

KeyUnique(skills) ==
  \A i, j \in 1..Len(skills) : i # j => KeyOf(skills[i]) # KeyOf(skills[j])

\* C3: key uniqueness. manifest.json never holds two records with the same
\* (name, agent, scope), a missing scope counting as "project".
C3_KeyUnique == manFile.kind = "doc" => KeyUnique(manFile.doc.skills)

\* an upsert has just replaced the record another call had written under the
\* same key with a different scope field (absent against "project")
C3_Witness ==
  \E p \in Procs :
    /\ pc[p] = "release" /\ outcome[p] = "ok" /\ op[p].kind = "add"
    /\ lastWrite[KeyOf(op[p])] # NoRecord
    /\ lastWrite[KeyOf(op[p])].scope # op[p].scope
    /\ lastWrite[KeyOf(op[p])].commitHash # op[p].commitHash
    /\ manFile.kind = "doc"
    /\ RecordsAt(manFile.doc.skills, KeyOf(op[p])) = <<RecordOf(op[p])>>

InSave(p) == pc[p] \in {"save_open", "save_write", "save_rename"}

\* p's saveManifest ends in this step without its renameSync having
\* succeeded: the process dies, the write fails, or the rename fails
SaveEndsBadly(p) ==
  /\ InSave(p)
  /\ \/ pc'[p] = "crashed"
     \/ pc[p] = "save_write" /\ pc'[p] \notin {"save_write", "save_rename"}
     \/ pc[p] = "save_rename" /\ pc'[p] # "save_rename" /\ tmpFile.kind = "absent"

\* C4: crash and failure atomicity of saveManifest. When a saveManifest fails
\* or its process dies before renameSync completed, manifest.json holds
\* exactly what the last successful save put there.
C4_SaveAtomic == [][\A p \in Procs : SaveEndsBadly(p) => manFile' = committed']_vars

\* C5: atomic visibility. What a reader finds in manifest.json is always a
\* complete document, never an empty or partly written file.
C5_AtomicVisibility == manFile.kind \in {"absent", "doc"}

Moves(p) == pc'[p] \notin {pc[p], "crashed"}

\* C10: stale-lock takeover. A process that reads another process's marker
\* older than LOCK_STALE_MS goes on to remove it, whether or not the holder
\* is running; with the marker removed it creates its own, and acquireLock
\* returns true. (Each step is taken on the file as the step finds it.)
C10_StaleTakeover ==
  [][\A p \in Procs :
       /\ (/\ pc[p] = "acq_read" /\ Moves(p)
           /\ lockFile.kind = "info" /\ lockFile.pid # p
           /\ lockFile.timestamp # 0
           /\ now - lockFile.timestamp > LOCK_STALE_MS)
          => pc'[p] = "acq_unlink_stale"
       /\ (pc[p] = "acq_unlink_stale" /\ Moves(p) /\ lockFile.kind # "absent")
          => (lockFile'.kind = "absent" /\ pc'[p] = "acq_recreate")
       /\ (pc[p] = "acq_recreate" /\ Moves(p) /\ lockFile.kind = "absent")
          => (lockFile'.kind = "empty" /\ lockFd'[p] = "lock" /\ pc'[p] = "acq_write")
       /\ (pc[p] = "acq_write" /\ Moves(p)) => pc'[p] = "load"]_vars

\* B has removed the marker of A, whose timestamp was older than
\* LOCK_STALE_MS, while A is running and still inside its locked section
C10_Witness ==
  \E a, b \in Procs :
    /\ a # b /\ crashes = 0 /\ alive[a] /\ InLockedSection(a)
    /\ pc[b] = "acq_recreate" /\ lockFile.kind = "absent"

\* the marker p reads was written by another process that no longer runs
DeadHolderMarker(p) ==
  /\ lockFile.kind = "info" /\ lockFile.pid # p
  /\ ~KillProbe(lockFile.pid)

FreshMarker == lockFile.timestamp # 0 /\ now - lockFile.timestamp <= LOCK_STALE_MS

\* C11 (as amended): dead-holder takeover. On a platform other than win32, a
\* process that reads the marker of a process no longer running goes on to
\* remove it at once, however young the marker is, then creates its own and
\* acquireLock returns true. On win32 every well-formed pid counts as
\* running: there the marker of a dead holder is waited on while it is
\* younger than LOCK_STALE_MS.
C11_DeadHolderTakeover ==
  [][\A p \in Procs :
       /\ (pc[p] = "acq_read" /\ Moves(p) /\ DeadHolderMarker(p) /\ platform # "win32")
          => (pc'[p] = "acq_unlink_stale" /\ wakeAt'[p] = wakeAt[p])
       /\ (/\ pc[p] = "acq_read" /\ Moves(p) /\ DeadHolderMarker(p)
           /\ platform = "win32" /\ FreshMarker)
          => (pc'[p] = "acq_sleep" /\ lockFile' = lockFile)
       /\ (pc[p] = "acq_unlink_stale" /\ Moves(p) /\ lockFile.kind # "absent")
          => (lockFile' = AbsentLock /\ pc'[p] = "acq_recreate")
       /\ (pc[p] = "acq_recreate" /\ Moves(p) /\ lockFile.kind = "absent")
          => (lockFile' = EmptyLock /\ pc'[p] = "acq_write")]_vars

\* C11 as stated: on every platform, reading the marker of a process no
\* longer running leads to its removal without waiting.
C11_DeadHolderAnyPlatform ==
  [][\A p \in Procs :
       (pc[p] = "acq_read" /\ Moves(p) /\ DeadHolderMarker(p))
         => pc'[p] = "acq_unlink_stale"]_vars

\* no time has passed since the holder wrote its marker and died, and another
\* process has already removed the marker
C11_Witness ==
  \E a, b \in Procs :
    /\ platform = "posix" /\ ticks = 0
    /\ pc[a] = "crashed" /\ pc[b] = "acq_recreate"
    /\ lockFile = AbsentLock

InAcquire(p) ==
  pc[p] \in {"acq_try", "acq_write", "acq_read", "acq_unlink_stale", "acq_recreate",
             "acq_unlink_bad", "acq_sleep"}

\* the marker p reads belongs to another process that counts as running and
\* is younger than LOCK_STALE_MS
HeldMarker(p) ==
  /\ lockFile.kind = "info" /\ lockFile.pid # p
  /\ isProcessRunning(lockFile.pid)
  /\ FreshMarker

C13_ReentryImmediate ==
  [][\A p \in Procs :
       (pc[p] = "acq_read" /\ Moves(p) /\ lockFile.kind = "info" /\ lockFile.pid = p)
         => /\ pc'[p] = "load"
            /\ lockFile' = lockFile
            /\ now' = now
            /\ wakeAt'[p] = wakeAt[p]]_vars

\* the caller is inside its locked section under the old marker it found
\* with its own pid
C13_Witness ==
  /\ pc[Caller] = "load" /\ op[Caller].kind \in {"add", "remove"}
  /\ calls = 1 /\ now = SoloNow
  /\ lockFile = LockInfo(Caller, 1)

\* C14: corrupt-marker recovery. A process that reads a marker with no
\* parseable lock info goes on to remove it and is back at the exclusive
\* create with no sleep set and no time passed; with nobody else touching the
\* path, it then acquires the lock.
C14_CorruptMarkerRecovery ==
  /\ [][\A p \in Procs :
          /\ (pc[p] = "acq_read" /\ Moves(p) /\ lockFile.kind \in {"empty", "garbled"})
             => (pc'[p] = "acq_unlink_bad" /\ now' = now /\ wakeAt'[p] = wakeAt[p])
          /\ (pc[p] = "acq_unlink_bad" /\ Moves(p))
             => /\ lockFile' = AbsentLock
                /\ pc'[p] = "acq_try"
                /\ now' = now
                /\ wakeAt'[p] = wakeAt[p]
                /\ startTime'[p] = startTime[p]]_vars
  /\ [](pc[Caller] = "acq_unlink_bad" => <>(pc[Caller] = "load"))

\* the caller has read a marker that is not lock info and is about to
\* remove it
C14_Witness ==
  /\ pc[Caller] = "acq_unlink_bad"
  /\ lockFile = GarbledLock
  /\ now = startTime[Caller]

\* C15: release is idempotent. releaseLock leaves no marker behind: it removes
\* the one it finds, and with none to find it changes nothing; in neither
\* case does it alter how the call ends.
C15_ReleaseIdempotent ==
  [][\A p \in Procs :
       (pc[p] = "release" /\ Moves(p))
         => /\ lockFile' = AbsentLock
            /\ (lockFile = AbsentLock => lockFd' = lockFd)
            /\ outcome'[p] = outcome[p]
            /\ pc'[p] = "idle"]_vars

\* one call has returned, its releaseLock having removed the marker, and
\* another process is about to run releaseLock with no marker in place
C15_Witness ==
  \E p, q \in Procs :
    /\ p # q
    /\ pc[p] = "idle" /\ outcome[p] = "ok" /\ wrote[p]
    /\ pc[q] = "release"
    /\ lockFile = AbsentLock

\* C16: corruption is treated as absence. When manifest.json does not exist,
\* is not JSON or is JSON of another shape, loadManifest returns the empty
\* manifest of the current version and writes nothing; and a call that only
\* loads always returns normally.
C16_CorruptionAsAbsence ==
  [][\A p \in Procs :
       /\ (pc[p] = "load" /\ Moves(p) /\ manFile.kind # "doc")
          => /\ mem'[p] = Mutate(op[p], EmptyManifest)
             /\ phase'[p] # "mig"
             /\ manFile' = manFile /\ tmpFile' = tmpFile
             /\ wrote'[p] = wrote[p]
       /\ (op[p].kind = "read" /\ pc[p] # "idle" /\ pc'[p] = "idle")
          => outcome'[p] = "ok"]_vars

\* a loading call has returned the empty manifest from a file that is JSON
\* of another shape, and the file is as it was
C16_Witness ==
  /\ pc[Caller] = "idle" /\ outcome[Caller] = "ok" /\ calls = 1
  /\ mem[Caller] = EmptyManifest
  /\ manFile = InvalidFile
  /\ tmpFile = AbsentFile

\* C17: forward migration on load. A stored document of an older version is
\* loaded as the same records under MANIFEST_VERSION, and when loadManifest
\* leaves its migration that document is what it returns and what
\* manifest.json holds.
C17_MigrationOnLoad ==
  [][\A p \in Procs :
       /\ (/\ pc[p] = "load" /\ Moves(p)
           /\ manFile.kind = "doc" /\ manFile.doc.version < MANIFEST_VERSION)
          => /\ phase'[p] = "mig"
             /\ mem'[p] = Manifest(MANIFEST_VERSION, manFile.doc.skills)
       /\ (phase[p] = "mig" /\ phase'[p] # "mig" /\ Moves(p))
          => /\ mem'[p] = Mutate(op[p], mem[p])
             /\ manFile' = StringifyManifest(mem[p])]_vars

\* C18: migration is idempotent. The document a migrating load works with
\* carries MANIFEST_VERSION, and loading a stored document that migration
\* leaves as it is returns that document, with no migration and no write.
C18_MigrationIdempotent ==
  /\ [](\A p \in Procs : phase[p] = "mig" => mem[p] = migrateManifest(mem[p]))
  /\ [][\A p \in Procs :
          (/\ pc[p] = "load" /\ Moves(p)
           /\ manFile.kind = "doc" /\ manFile.doc = migrateManifest(manFile.doc))
          => /\ phase'[p] # "mig"
             /\ mem'[p] = Mutate(op[p], manFile.doc)
             /\ manFile' = manFile /\ tmpFile' = tmpFile
             /\ wrote'[p] = wrote[p]]_vars

\* the second call has loaded, without writing, the document the first call's
\* migration of the older manifest had stored
C18_Witness ==
  /\ calls = 2 /\ pc[Caller] = "idle" /\ outcome[Caller] = "ok"
  /\ ~wrote[Caller]
  /\ mem[Caller] = Manifest(MANIFEST_VERSION, <<OldRecord>>)
  /\ manFile = StringifyManifest(mem[Caller])

\* C19: the schema version never goes backwards. Starting from a manifest of
\* a version above MANIFEST_VERSION, the document in manifest.json never
\* carries a lower version than that, whatever calls are made.
C19_VersionMonotonic ==
  manFile.kind = "doc" => manFile.doc.version >= MANIFEST_VERSION + 1

\* C20: removing a (name, agent, scope) key that has no record leaves the
\* document's version and every existing record unchanged. No step of such
\* a removeSkillRecord call changes the records in manifest.json or their
\* order, and the stored version stays as it is, the migration of an older
\* document to MANIFEST_VERSION by the call's loadManifest apart.
C20_RemoveMissingKeepsDocument ==
  [][(/\ op[Caller].kind = "remove"
      /\ manFile.kind = "doc"
      /\ RecordsAt(manFile.doc.skills, KeyOf(op[Caller])) = <<>>)
     => /\ manFile'.kind = "doc"
        /\ manFile'.doc.skills = manFile.doc.skills
        /\ manFile'.doc.version \in {manFile.doc.version, MANIFEST_VERSION}
        /\ manFile'.doc.version >= manFile.doc.version]_vars

\* with one caller at a time the stored version never decreases
SoloVersionMonotonic ==
  [][manFile.kind = "doc" /\ manFile'.kind = "doc"
     => manFile'.doc.version >= manFile.doc.version]_vars

\* the records manifest.json holds under key k
StoredAt(file, k) == IF file.kind = "doc" THEN RecordsAt(file.doc.skills, k) ELSE <<>>

\* C21: addSkillRecord(r) and removeSkillRecord(name, agent, scope) change
\* only the record with exactly that (name, agent, scope) key. No step of
\* such a call changes what manifest.json holds under any other key.
C21_UpsertRemoveFrame ==
  [][op[Caller].kind \in {"add", "remove"}
     => \A k \in Keys \ {KeyOf(op[Caller])} :
          StoredAt(manFile', k) = StoredAt(manFile, k)]_vars

\* p's addSkillRecord / removeSkillRecord has returned or thrown after its
\* acquireLock returned true
AcquiredAndEnded(p) ==
  pc[p] = "idle" /\ outcome[p] \in {"ok", "save_error"} /\ mem[p] = NilDoc

\* C32: the lock is always given back. A call that acquired the lock ends
\* only through releaseLock, whether its save returned or threw; when it has
\* returned or thrown no marker of the caller is in place and the caller
\* holds no marker open; and every call that acquired the lock does end.
C32_LockGivenBack ==
  /\ [][\A p \in Procs :
          (InLockedSection(p) /\ Moves(p) /\ pc'[p] = "idle")
            => (pc[p] = "release" /\ lockFile' = AbsentLock /\ lockFd'[p] # "lock")]_vars
  /\ [](\A p \in Procs :
          AcquiredAndEnded(p) => (lockFile.pid # p /\ lockFd[p] # "lock"))
  /\ [](InLockedSection(Caller)
          => <>(AcquiredAndEnded(Caller) /\ lockFile = AbsentLock))

\* the caller's call has thrown the error of its saveManifest and no marker
\* is left
C32_Witness ==
  /\ pc[Caller] = "idle" /\ outcome[Caller] = "save_error" /\ calls = 1
  /\ wrote[Caller]
  /\ lockFile = AbsentLock

\* when p's acquireLock next tests its loop condition: at the end of the
\* sleep it is in, or now
NextTest(p) == IF pc[p] = "acq_sleep" /\ wakeAt[p] > now THEN wakeAt[p] ELSE now

\* C33: waiter progress. When A's call has released the lock while B's
\* acquireLock, started less than LOCK_TIMEOUT_MS ago, is still running, B's
\* acquireLock returns true.
C33_WaiterProgress ==
  \A a, b \in Contenders :
    a # b => []((AcquiredAndEnded(a) /\ InAcquire(b) /\ WithinTimeout(b))
                  => <>InLockedSection(b))

\* C33 for a release that B can see: B's acquireLock returns true when the
\* release comes early enough for B to test its loop condition once more
\* within LOCK_TIMEOUT_MS of its start. On a fresh marker of a running
\* process B sleeps LOCK_RETRY_MS and goes back to the test; it does not
\* fail on the contention itself.
C33_WaiterProgressInTime ==
  /\ \A a, b \in Contenders :
       a # b => []((/\ AcquiredAndEnded(a) /\ InAcquire(b)
                    /\ NextTest(b) - startTime[b] < LOCK_TIMEOUT_MS)
                     => <>InLockedSection(b))
  /\ [][\A p \in Procs :
          /\ (pc[p] = "acq_read" /\ Moves(p) /\ HeldMarker(p))
             => /\ pc'[p] = "acq_sleep"
                /\ wakeAt'[p] = now + LOCK_RETRY_MS
                /\ lockFile' = lockFile
          /\ (pc[p] = "acq_sleep" /\ Moves(p))
             => (pc'[p] = "acq_try" /\ outcome'[p] = outcome[p])]_vars

\* B is inside its locked section under a marker it created after at least
\* one sleep, and A's call has returned
C33_Witness ==
  \E a, b \in Contenders :
    /\ a # b
    /\ AcquiredAndEnded(a) /\ outcome[a] = "ok"
    /\ InLockedSection(b)
    /\ lockFile.kind = "info" /\ lockFile.pid = b
    /\ lockFile.timestamp > LOCK_RETRY_MS

\* h created the marker now in place, is running, and created it no longer
\* than LOCK_STALE_MS ago
HoldsFreshMarker(h) ==
  /\ lockFd[h] = "lock"
  /\ alive[h]
  /\ now - lockTs[h] <= LOCK_STALE_MS

\* C36: a fresh lock is never stolen. While the process that created the
\* marker is running and the marker is younger than LOCK_STALE_MS, no step of
\* another process's acquireLock removes or replaces it, its content written
\* or not yet.
C36_FreshLockNeverStolen ==
  [][\A h, q \in Procs :
       (h # q /\ HoldsFreshMarker(h) /\ InAcquire(q) /\ Moves(q))
         => (lockFd'[h] = "lock" /\ lockFile'.kind # "absent")]_vars

C38_ReadsKeepWrites ==
  QuietStore =>
    \A k \in Keys :
      /\ lastWrite[k].commitHash = Writer => RecordsAt(Persisted, k) = <<lastWrite[k]>>
      /\ lastWrite[k] = NoRecord => RecordsAt(Persisted, k) = <<>>

(* ===================== the orchestrator's properties =================== *)
\* C6: rollback reverses content. When installSkill threw, the request ends
\* only after uninstallSkill was called for every pair whose installSkill had
\* returned earlier in the request.
C6_RollbackReversesContent ==
  (ipc = "Failed" /\ err.kind = "install") =>
    \A i \in 1..Len(completed) :
      \E j \in 1..Len(uninstallCalls) : uninstallCalls[j] = completed[i]

\* one skill to three agents, the second agent's installSkill threw, and
\* the request has ended
C6_Witness ==
  /\ ipc = "Failed" /\ err.kind = "install"
  /\ Len(selectedSkills) = 1 /\ Len(selectedAgents) = 3
  /\ err.agent = selectedAgents[2]
  /\ completed = <<Pair(selectedSkills[1], selectedAgents[1])>>
  /\ uninstallCalls = completed

\* C7: rollback removes records. After a request in which installSkill threw
\* has ended, the manifest holds no record for any pair the request had
\* completed before the failure.
C7_RollbackRemovesRecords ==
  (ipc = "Failed" /\ err.kind = "install") =>
    \A i \in 1..Len(completed) :
      RecordsAt(Persisted, <<completed[i].name, completed[i].agent, scope>>) = <<>>

\* C8: the original error survives rollback. When a reversal uninstallSkill
\* threw too, every completed pair has still had its uninstallSkill call and
\* the error installFromGitHub raises is the one caught, not the rollback's.
C8_OriginalErrorSurvives ==
  (ipc = "Failed" /\ rbThrown # {}) =>
    /\ raised = err
    /\ raised.kind \in {"install", "record"}
    /\ \A i \in 1..Len(completed) :
         \E j \in 1..Len(uninstallCalls) : uninstallCalls[j] = completed[i]

\* installSkill threw after two pairs had completed, the reversal of the
\* first pair threw, and the request has ended
C8_Witness ==
  /\ ipc = "Failed" /\ err.kind = "install"
  /\ Len(completed) >= 2
  /\ 1 \in rbThrown
  /\ Len(uninstallCalls) = Len(completed)

\* C34: a record-write failure counts as an install failure. A pair whose
\* installSkill returned is tracked; addSkillRecord either stores its record
\* or throws, and the throw sends the request into the rollback with that
\* error. The request then ends only after uninstallSkill was called for that
\* pair and for every pair completed before it, each pair's content gone
\* unless its uninstallSkill threw, and the error raised is addSkillRecord's.
C34_RecordFailureRollsBack ==
  /\ [][ipc = "Record" =>
          \/ /\ ipc' # "RollingBack"
             /\ RecordsAt(ParseManifest(manFile').skills,
                          <<CurSkill, CurAgent, scope>>) # <<>>
          \/ /\ ipc' = "RollingBack"
             /\ err' = Error("record", CurSkill, CurAgent)
             /\ installedSkills[Len(installedSkills)] = Pair(CurSkill, CurAgent)
             /\ UNCHANGED <<content, manFile, installedSkills>>]_vars
  /\ []((ipc = "Failed" /\ err.kind = "record") =>
          /\ raised = err
          /\ Len(completed) >= 1
          /\ completed[Len(completed)] = Pair(err.name, err.agent)
          /\ uninstallCalls = completed
          /\ \A i \in DOMAIN completed :
               i \notin rbThrown
                 => content[completed[i].agent][scope][completed[i].name] = "absent")

\* the second pair's addSkillRecord threw after its installSkill returned, and
\* the request has ended with both pairs' content removed
C34_Witness ==
  /\ ipc = "Failed" /\ err.kind = "record"
  /\ Len(completed) = 2
  /\ raised = Error("record", completed[2].name, completed[2].agent)
  /\ uninstallCalls = completed
  /\ rbThrown = {}
  /\ \A i \in DOMAIN completed :
       content[completed[i].agent][scope][completed[i].name] = "absent"

AtNextPair ==
  IF ai < Len(selectedAgents)
  THEN ipc' = "Validate" /\ si' = si /\ ai' = ai + 1
  ELSE IF si < Len(selectedSkills)
       THEN ipc' = "SkillStart" /\ si' = si + 1
       ELSE ipc' = "Committed"

\* C22: incompatibility is per pair. A pair whose skill validateSkill
\* rejects gets no installSkill call and no record, triggers no rollback,
\* and the request goes on with the next pair.
C22_IncompatiblePairSkipped ==
  /\ [](ipc \in {"Install", "Record"} => CurSkill \notin invalidSkills)
  /\ [](/\ \A i \in DOMAIN installedSkills : installedSkills[i].name \notin invalidSkills
        /\ \A i \in DOMAIN completed : completed[i].name \notin invalidSkills)
  /\ [][(manFile' # manFile) => (ipc = "Record" /\ CurSkill \notin invalidSkills)]_vars
  /\ [][ipc = "Validate" /\ CurSkill \in invalidSkills
        => /\ AtNextPair
           /\ UNCHANGED <<content, manFile, installedSkills, err, rb>>]_vars

\* the first agent's pair of a rejected skill was skipped and the second
\* agent's pair is being validated
C22_Witness ==
  /\ ipc = "Validate"
  /\ ai = 2
  /\ CurSkill \in invalidSkills

\* the place of a name in a selection
IndexIn(list, x) == CHOOSE i \in DOMAIN list : list[i] = x

\* pair a comes before pair b in skill-major order
PairBefore(a, b) ==
  \/ IndexIn(selectedSkills, a.name) < IndexIn(selectedSkills, b.name)
  \/ /\ a.name = b.name
     /\ IndexIn(selectedAgents, a.agent) < IndexIn(selectedAgents, b.agent)

\* the outer loop is at the skill after si, or past the last skill
AtNextSkill ==
  IF si < Len(selectedSkills)
  THEN ipc' = "SkillStart" /\ si' = si + 1
  ELSE ipc' = "Committed"

\* C23: an install request processes its (skill, agent) pairs in skill-major
\* order, one at a time. The pairs installed so far are in that order, all
\* of them come before the pair in progress, and every step of the loops
\* either stays with the pair in progress, goes to the pair right after it,
\* or leaves the loops for the rollback.
C23_SkillMajorOrder ==
  /\ [](\A i, j \in DOMAIN completed : i < j => PairBefore(completed[i], completed[j]))
  /\ [](ipc \in {"Validate", "Install"}
        => \A i \in DOMAIN completed : PairBefore(completed[i], Pair(CurSkill, CurAgent)))
  /\ [][/\ ipc = "SkillStart"
           => \/ ipc' = "Validate" /\ si' = si /\ ai' = 1
              \/ AtNextSkill
        /\ ipc = "Validate"
           => \/ ipc' = "Install" /\ si' = si /\ ai' = ai
              \/ AtNextPair
        /\ ipc = "Install"
           => \/ ipc' = "Record" /\ si' = si /\ ai' = ai
              \/ ipc' = "RollingBack"
        /\ ipc = "Record"
           => \/ AtNextPair
              \/ ipc' = "RollingBack"]_vars

\* two skills were installed for two agents each
C23_Witness ==
  /\ ipc = "Committed"
  /\ Len(completed) = 4
  /\ completed[1].name = completed[2].name
  /\ completed[1].agent = completed[3].agent

\* the (name, agent) pairs of the records in manifest.json
StoredPairs ==
  IF manFile.kind = "doc"
  THEN {Pair(manFile.doc.skills[i].name, manFile.doc.skills[i].agent) :
          i \in DOMAIN manFile.doc.skills}
  ELSE {}

\* C24: within an install request addSkillRecord is called for a pair only
\* after that pair's installSkill returned. The request is at its
\* addSkillRecord call only with the pair installSkill returned for last,
\* the manifest changes only at that call, which adds that pair's record
\* and no other: none for a pair that was skipped as incompatible, and none
\* for the pair whose installSkill threw, after which the request makes no
\* further call.
C24_RecordAfterInstall ==
  /\ [](ipc = "Record"
        => /\ completed # <<>>
           /\ completed[Len(completed)] = Pair(CurSkill, CurAgent))
  /\ [](ipc = "Record" => CurSkill \notin invalidSkills)
  /\ [](err.kind = "install" => ipc \notin {"Validate", "Install", "Record"})
  /\ [][manFile' # manFile
        => /\ ipc = "Record"
           /\ StoredPairs' = StoredPairs \cup {Pair(CurSkill, CurAgent)}]_vars

\* a request that recorded a pair and then failed in installSkill
C24_Witness ==
  /\ ipc = "Failed"
  /\ err.kind = "install"
  /\ StoredPairs # {}

\* the state of the request in the words of the specification
RequestState(at) ==
  IF at \in {"SkillStart", "Validate", "Install", "Record"} THEN "Installing" ELSE at

\* the request's state before and after a step
RequestStep == <<RequestState(ipc), RequestState(ipc')>>

Terminal == {"Committed", "Failed", "Cancelled"}

\* the steps of a request from one state to another
RequestEdges ==
  {<<"Resolving", "Installing">>,
   <<"Installing", "Installing">>, <<"Installing", "Committed">>,
   <<"Installing", "RollingBack">>, <<"RollingBack", "RollingBack">>,
   <<"RollingBack", "Failed">>}

\* what holds of every request whatever its edges: it starts in Resolving,
\* when no request is running; Failed is entered with one uninstallSkill
\* call made for each tracked pair, in order; a request in a terminal state
\* does nothing more, the next step being another request's; a running
\* request ends
RequestEnds ==
  /\ [][(requests' # requests)
        => /\ ipc \in {"None"} \cup Terminal
           /\ ipc' = "Resolving"
           /\ UNCHANGED <<content, manFile>>]_vars
  /\ [][ipc' = "Failed" /\ ipc # "Failed" => uninstallCalls = installedSkills]_vars
  /\ [][(ipc \in Terminal) => requests' # requests]_vars
  /\ (ipc = "Resolving" ~> ipc \in Terminal)

AllKeys == Names \X Range(AllAgents) \X InstallScope

\* the key of the uninstallSkill / removeSkillRecord call in progress
CurKey == <<uSkill, uAgents[ui], uScope>>

\* the skill directories other than the one at key k are as they were
OtherContentKept(k) ==
  \A a \in Range(AllAgents), sc \in InstallScope, n \in Range(AvailableSkills) :
    <<n, a, sc>> # k => content'[a][sc][n] = content[a][sc][n]

\* the records under the keys other than k are as they were
OtherRecordsKept(k) ==
  \A k2 \in AllKeys \ {k} : StoredAt(manFile', k2) = StoredAt(manFile, k2)

\* C26: single-target uninstall. uninstallSkill removes the skill's
\* directory at that agent and scope if it exists and answers whether it
\* did, touching no other directory; removeSkillRecord is called exactly
\* when the answer was true and removes the record of that (name, agent,
\* scope) key and no other; before that, and when the skill is reported as
\* not installed, neither a directory nor the manifest is changed.
C26_SingleTargetUninstall ==
  /\ [][upc = "Removing" /\ upc' # "Failed"
        => /\ content'[uAgents[ui]][uScope][uSkill] = "absent"
           /\ (upc' = "Record") <=> Exists(uAgents[ui], uScope, uSkill)
           /\ (upc' = "Record") <=> (uAgents[ui] \in uRemoved')
           /\ OtherContentKept(CurKey)
           /\ manFile' = manFile]_vars
  /\ [][upc = "Record" /\ upc' # "Failed"
        => /\ uAgents[ui] \in uRemoved
           /\ StoredAt(manFile', CurKey) = <<>>
           /\ OtherRecordsKept(CurKey)
           /\ content' = content]_vars
  /\ [][upc \notin {"Removing", "Record"} => content' = content /\ manFile' = manFile]_vars
  /\ [](uTarget # "all" /\ upc \in {"Removing", "Record", "Done"}
        => Len(uAgents) = 1 /\ uRemoved \subseteq {uAgents[1]})

\* a skill was uninstalled for one agent in one scope while the same agent
\* still has it, directory and record, in the other scope
C26_Witness ==
  /\ upc = "Done"
  /\ uTarget # "all"
  /\ uRemoved # {}
  /\ StoredAt(manFile, <<uSkill, uAgents[1], uScope>>) = <<>>
  /\ \E sc \in InstallScope \ {uScope} :
       /\ content[uAgents[1]][sc][uSkill] = "installed"
       /\ StoredAt(manFile, <<uSkill, uAgents[1], sc>>) # <<>>

\* C27: all-targets uninstall. The set of agents holding the skill in the
\* given scope is computed before anything is removed; if it is empty
\* nothing is removed; otherwise, when the command is done, no agent holds
\* the skill's directory in that scope and the record of every agent whose
\* directory was removed is gone; directories and records of the other
\* scope are never touched.
C27_AllTargetsUninstall ==
  /\ [][upc = "Listing" /\ uTarget = "all"
        => /\ toRemove' = Holders(uScope, uSkill)
           /\ uRemoved = {}
           /\ content' = content /\ manFile' = manFile]_vars
  /\ [](uTarget = "all" /\ upc \notin {"None", "Listing"} /\ toRemove = {}
        => upc = "NotInstalled" /\ uRemoved = {})
  /\ [][uTarget = "all" /\ upc \in {"NotInstalled", "Confirm", "Cancelled"}
        => content' = content /\ manFile' = manFile]_vars
  /\ [](uTarget = "all" /\ upc = "Done"
        => /\ \A a \in Range(AllAgents) : content[a][uScope][uSkill] = "absent"
           /\ toRemove \subseteq uRemoved
           /\ \A a \in uRemoved : StoredAt(manFile, <<uSkill, a, uScope>>) = <<>>)
  /\ [][uTarget = "all"
        => \A a \in Range(AllAgents), sc \in InstallScope \ {uScope} :
             /\ content'[a][sc] = content[a][sc]
             /\ \A n \in Names :
                  StoredAt(manFile', <<n, a, sc>>) = StoredAt(manFile, <<n, a, sc>>)]_vars

\* --all removed the skill from two agents or more, one of them not among
\* the agents reported, while the other scope still holds it
C27_Witness ==
  /\ upc = "Done"
  /\ uTarget = "all"
  /\ Cardinality(uRemoved) >= 2
  /\ uRemoved # toRemove
  /\ \E a \in Range(AllAgents), sc \in InstallScope \ {uScope} :
       /\ content[a][sc][uSkill] = "installed"
       /\ StoredAt(manFile, <<uSkill, a, sc>>) # <<>>

(* ================= the command sequence's properties =================== *)
\* C40: record/content agreement. From the empty state, between the
\* commands of a sequence of install and uninstall commands that all ended
\* without an error, the manifest holds a record for (name, agent, scope)
\* exactly when the agent holds installed content for that name in that
\* scope.
C40_RecordContentAgreement ==
  Quiescent =>
    \A a \in Range(AllAgents), sc \in InstallScope, n \in Range(AvailableSkills) :
      (RecordsAt(Persisted, <<n, a, sc>>) # <<>>) <=> (content[a][sc][n] = "installed")

\* an install, an uninstall that removed a skill from an agent, and an
\* install again: the last install's record and content are there, and
\* another pair is recorded and installed in the global scope
C40_Witness ==
  /\ Quiescent
  /\ requests = 3
  /\ ipc = "Committed" /\ upc = "Done"
  /\ uRemoved # {}
  /\ Len(completed) >= 1
  /\ \E i \in DOMAIN Persisted : Persisted[i].commitHash = 3
  /\ \E i \in DOMAIN Persisted : Persisted[i].scope = "global" /\ Persisted[i].commitHash = 1
  /\ \E a \in uRemoved : content[a][uScope][uSkill] = "absent"

(* ==================== the repository cache's properties ================ *)
\* what loadRepoCache is to return for the cache file of a source
CachedSkills(name) ==
  IF name \in DOMAIN cacheFile /\ cacheFile[name].kind = "cache"
  THEN cacheFile[name].skills
  ELSE <<>>

\* C28: loadRepoCache(name) never throws, for any source name: it returns
\* [] when the cache file is absent, unreadable, unparseable or without a
\* skills array, and the cached skills otherwise.
C28_LoadNeverThrows ==
  rop.kind = "load"
    => /\ rpc # "Threw"
       /\ rpc = "Done" => rResult = CachedSkills(rop.name)

\* str contains q when upper and lower case letters are taken as the same
ContainsCI(str, q) ==
  \E i \in 0..(Len(str) - Len(q)) : \A k \in 1..Len(q) : Lower(str[i + k]) = Lower(q[k])

\* the names of the configured sources, in configuration order
ConfigNames == [i \in DOMAIN config |-> config[i].name]

\* the sources' cached skills one after the other, in configuration order
RECURSIVE CachedFrom(_)
CachedFrom(i) ==
  IF i > Len(config) THEN <<>>
  ELSE CachedSkills(config[i].name) \o CachedFrom(i + 1)

\* C29: searchSkills(query) visits the configured sources in configuration
\* order, calls refreshRepo for exactly the sources whose cached skill list
\* was empty, and returns, in source iteration order, exactly the skills
\* whose name or description contains the query case-insensitively.
C29_SearchSkills ==
  /\ rop.kind = "search"
       => /\ visited = SubSeq(ConfigNames, 1, Len(visited))
          /\ refreshCalls = SelectSeq(visited, LAMBDA n : ReadCache(cache0[n]) = <<>>)
          /\ \A n \in SourceNames :
               ReadCache(cache0[n]) # <<>> => cacheFile[n] = cache0[n]
  /\ rop.kind = "search" /\ rpc = "Done"
       => /\ visited = ConfigNames
          /\ rResult = SelectSeq(CachedFrom(1),
                                 LAMBDA skill : \/ ContainsCI(skill.name, rop.query)
                                                \/ ContainsCI(skill.description, rop.query))

\* "pdf" over a source caching pdf-tools and a source with an empty cache
\* returned exactly pdf-tools, after a refresh of the empty source
C29_Witness ==
  /\ rop.kind = "search" /\ rpc = "Done"
  /\ rop.query = <<"p", "d", "f">>
  /\ Len(config) = 2
  /\ Len(refreshCalls) = 1
  /\ rResult = <<RepoSkill(PdfTools, CHOOSE n \in SourceNames : n # refreshCalls[1])>>

\* refreshRepo is between its entry and its return or throw
InRefresh(at) == at \in {"RefreshParse", "RefreshFetch", "RefreshDiscover", "RefreshWrite"}

\* C30: a failed refresh leaves the cache untouched. While refreshRepo has
\* not reached its write the source's cache file is what it was before the
\* call; when the url is invalid, the fetch fails or discovery throws,
\* refreshRepo throws to its caller with every cache file as it was and is
\* not called again for that source; a cache file is rewritten only by the
\* write that follows a successful fetch and discovery.
C30_FailedRefreshKeepsCache ==
  /\ [](InRefresh(rpc) => cacheFile[rName] = cache0[rName])
  /\ [](\A i, j \in DOMAIN refreshCalls : i < j => refreshCalls[i] # refreshCalls[j])
  /\ [][cacheFile' # cacheFile => rpc = "RefreshWrite" /\ rErr' # "name"]_vars
  /\ [][(rpc \in {"RefreshParse", "RefreshFetch", "RefreshDiscover"}) /\ ~InRefresh(rpc')
        => /\ rErr' = (IF rpc = "RefreshParse" THEN "url"
                       ELSE IF rpc = "RefreshFetch" THEN "fetch" ELSE "discover")
           /\ cacheFile' = cacheFile
           /\ cacheFile'[rName] = cache0[rName]
           /\ refreshCalls' = refreshCalls
           /\ rpc' = (IF rop.kind = "search" THEN "SearchLoad" ELSE "Threw")
           /\ rop.kind = "search" => ri' = ri + 1]_vars

\* refreshRepo threw in discovery and the source's cache still holds its skills
C30_Witness ==
  /\ rop.kind = "refresh"
  /\ rpc = "Threw"
  /\ rErr = "discover"
  /\ cacheFile[rName].kind = "cache"
  /\ cacheFile[rName].skills # <<>>

\* C35: search tolerates a failing source. A searchSkills over the configured
\* sources never throws; a refreshRepo that throws inside it adds nothing to
\* the skills collected and sends the loop to the next source; and the
\* search returns, for every source, exactly the matches among the skills
\* that source's cache holds, a source whose refresh threw giving none.
C35_SearchToleratesFailingSource ==
  /\ [](rop.kind = "search" => rpc # "Threw")
  /\ [][(rop.kind = "search" /\ InRefresh(rpc) /\ rErr' # rErr)
          => /\ rpc' = "SearchLoad" /\ ri' = ri + 1
             /\ UNCHANGED <<allSkills, rResult>>]_vars
  /\ []((rop.kind = "search" /\ rpc = "Done")
          => \A n \in Range(ConfigNames) :
               SelectSeq(rResult, LAMBDA skill : skill.repo = n)
                 = SearchFilter(CachedSkills(n), rop.query))

\* the first source's cache was empty and its refresh failed in the fetch;
\* the search returned the second source's matches
C35_Witness ==
  /\ rop.kind = "search" /\ rpc = "Done"
  /\ Len(config) = 2
  /\ refreshCalls = <<config[1].name>>
  /\ rErr = "fetch"
  /\ CachedSkills(config[1].name) = <<>>
  /\ rResult # <<>>
  /\ \A i \in DOMAIN rResult : rResult[i].repo = config[2].name

(* ==================== the racing refreshes' properties ================= *)
\* the processes whose refreshRepo returned
Returned == {p \in Procs : racers[p].at = "Returned"}

\* no refreshRepo is between its open and its return
NoWriteInProgress == \A p \in Procs : racers[p].at \notin {"Open", "Write"}

\* C31: refresh/load round trip. After a refreshRepo returned, with no other
\* refresh of the source writing, loadRepoCache returns the list of one of
\* the refreshes that returned: of the only one exactly, and when two raced
\* the complete list of one of them, never a mixture.
C31_RefreshLoadRoundTrip ==
  (Returned # {} /\ NoWriteInProgress)
    => /\ ~loadRepoCache(RaceName).threw
       /\ cacheFile[RaceName] \in {StringifyCache(racers[p].found) : p \in Returned}
       /\ loadRepoCache(RaceName).skills \in {racers[p].found : p \in Returned}


====
